---- MODULE Spec2Model ----
(***************************************************************************)
(* A model of rustsynth: the dataflow host (src/src/host.rs), its          *)
(* block-synchronous scheduler and the double-buffered audio sink          *)
(* (src/src/output.rs).                                                    *)
(***************************************************************************)
EXTENDS Integers, Sequences, FiniteSets, TLC

(* ------------------------------------------------------------------ *)
(* Bounds of the model                                                 *)
(* ------------------------------------------------------------------ *)

\* number of samples of a block (constants.rs: 512, scaled down)
BUFFER_LEN == 2

\* number of blocks the graph thread hands to the sink
MaxBlocks == 3

\* number of modules a host holds, audio_out included
MaxModules == 5

\* number of groups a host holds
MaxGroups == 2

\* largest variadic arity passed to create_variadic_module
MaxArgs == 2

\* ticks of the clock (Instant) per sample period
TicksPerSample == 2

\* last reading of the clock
MaxClock == 9

\* number of messages the MIDI callback sends
MaxEvents == 3

\* number of passes of the loop of Host::process
MaxPasses == 2

\* The build script of the caller. Each call is made when the host has handed out `at`
\* module (or group) indices, and may be repeated later, when its name is taken.

\* calls of create_variadic_module
ModuleCatalogue ==
    {[at |-> 1, name |-> "audio_out", type |-> "MidiInput", settings |-> "unit",
      num_args |-> 0]}

\* calls of create_group
GroupCatalogue ==
    {[at |-> 0, name |-> "g", anonymous_instances |-> 1, named_instances |-> <<"x">>],
     [at |-> 0, name |-> "bad", anonymous_instances |-> 0, named_instances |-> <<"x", "x">>],
     [at |-> 1, name |-> "h", anonymous_instances |-> 1, named_instances |-> <<>>]}

\* calls of create_group_instance_variadic_module
InstanceCatalogue ==
    {[at |-> 1, group |-> 0, name |-> "poly", type |-> "MidiPoly", settings |-> "unit",
      num_args |-> 1],
     [at |-> 4, group |-> 1, name |-> "src", type |-> "MidiInput", settings |-> "unit",
      num_args |-> 0]}

\* calls of create_group_joining_module
JoiningCatalogue ==
    {[at |-> 3, group |-> 0, name |-> "mixer", type |-> "Op", settings |-> "Add"],
     [at |-> 3, group |-> 0, name |-> "poly", type |-> "Op", settings |-> "Add"]}

GroupedNames == {"mixer", "poly", "src"}

\* calls of create_group_instance_variadic_module with module types whose init can fail
SiblingsCatalogue ==
    {[at |-> 1, group |-> 0, name |-> "solo", type |-> "Exclusive", settings |-> "unit",
      num_args |-> 0],
     [at |-> 1, group |-> 1, name |-> "solo", type |-> "Exclusive", settings |-> "unit",
      num_args |-> 0],
     [at |-> 1, group |-> 0, name |-> "none", type |-> "Failing", settings |-> "unit",
      num_args |-> 0],
     [at |-> 1, group |-> 0, name |-> "poly", type |-> "MidiPoly", settings |-> "unit",
      num_args |-> 1]}

\* a port declaration of Module::init
Port(dir, kind, arity, name) == [dir |-> dir, kind |-> kind, arity |-> arity, name |-> name]

\* calls of create_variadic_module with module types that declare a port name more than
\* once: for one direction and element kind ("twin", "late") or across them ("env",
\* "mixed")
PortsCatalogue ==
    {[at |-> 1, name |-> "env", type |-> "Envelope", settings |-> "unit", num_args |-> 0],
     [at |-> 2, name |-> "twin", type |-> "Custom", num_args |-> 0,
      settings |-> <<Port("in", "signal", "Single", "x"),
                     Port("in", "signal", "Single", "x")>>],
     [at |-> 2, name |-> "mixed", type |-> "Custom", num_args |-> 2,
      settings |-> <<Port("in", "signal", "Variadic", "x"),
                     Port("out", "signal", "Single", "x"),
                     Port("in", "midi", "Single", "x"),
                     Port("in", "signal", "Single", "in")>>],
     [at |-> 3, name |-> "late", type |-> "Custom", num_args |-> 1,
      settings |-> <<Port("out", "midi", "Single", "out"),
                     Port("out", "signal", "Single", "out"),
                     Port("out", "midi", "Variadic", "out")>>]}

\* calls of create_variadic_module with a module type whose init returns an error, under
\* a name that a call of PortsCatalogue uses too
FailingCatalogue ==
    {[at |-> 1, name |-> "env", type |-> "Failing", settings |-> "unit", num_args |-> 0]}

\* the port names a caller looks up
LookupNames == {"in", "out", "x", "gate"}

\* calls of create_variadic_module that build the scheduled graph of Op modules
SchedCatalogue ==
    {[at |-> 1, name |-> "a", settings |-> "Add", num_args |-> 0],
     [at |-> 1, name |-> "audio_out", settings |-> "Add", num_args |-> 0],
     [at |-> 2, name |-> "b", settings |-> "Multiply", num_args |-> 1],
     [at |-> 3, name |-> "c", settings |-> "Add", num_args |-> 2]}

(* ------------------------------------------------------------------ *)
(* The audio sink: AudioOutput (output.rs)                             *)
(* ------------------------------------------------------------------ *)

VARIABLES
    index,              \* AudioOutputState.index
    now_reading,        \* AudioOutputState.now_reading
    can_write,          \* AudioOutputState.can_write
    out_of_samples,     \* AudioOutputState.out_of_samples
    buffer_a,           \* AudioOutputInner.buffer_a (contents)
    buffer_b,           \* AudioOutputInner.buffer_b (contents)
    state_mutex,        \* holder of AudioOutputInner.state: "free", "reader", "poisoned"
    buffer_mutex,       \* holder of each buffer mutex: "free", "writer", "reader"
    notified,           \* can_write_condvar: a notify_all reached the waiting writer
    wpc,                \* writer (graph thread) position inside AudioOutput::write
    rpc,                \* reader (audio thread) position inside AudioOutput::next
    write_buffer_name,  \* the writer's local write_buffer_name
    data,               \* the block the writer was called with
    n_written,          \* number of calls of AudioOutput::write so far
    returned,           \* the value the last call of next() returned
    reads,              \* history: the samples next() returned from a buffer
    kept_up,            \* history: every end of buffer found the next block fully written
    underrun,           \* history: next() set out_of_samples and no buffer sample followed yet
    resumed             \* history: first buffer sample after an underrun, with the newest block

sinkVars == <<index, now_reading, can_write, out_of_samples, buffer_a, buffer_b,
              state_mutex, buffer_mutex, notified, wpc, rpc, write_buffer_name,
              data, n_written, returned, reads, kept_up, underrun, resumed>>

VARIABLES
    modules,            \* Host.modules: module index -> ModuleInternals
    module_handles,     \* Host.module_handles: name -> module index
    next_module_idx,    \* Host.next_module_idx
    groups,             \* Host.groups: group index -> Group
    group_handles,      \* Host.group_handles: name -> group index
    next_group_idx,     \* Host.next_group_idx
    output_handle,      \* Host.output_handle
    last                \* history: the last call made on the host and its result

hostVars == <<modules, module_handles, next_module_idx, groups, group_handles,
              next_group_idx, output_handle>>

VARIABLES
    phase,                 \* "build" until Host::process is called, then "run"
    log,                   \* history: the modules filled in the last pass, in call order
    passes,                \* history: number of passes run
    sink_in,               \* history: the block audio_out handed to AudioOutput::write
    handed,                \* history: the signal input blocks each fill_buffers call of the
                           \* last pass was handed, in call order
    called                 \* history: the process_module calls of the last pass, each with
                           \* the module whose loop made it, in call order

schedVars == <<phase, log, passes, sink_in, handed, called>>

VARIABLES
    set_by                 \* history: for each in-port set by a caller, the call that set it
                           \* last and the value it gave

\* the state of one MidiInput module and of the clock and MIDI callback that feed it
VARIABLES
    clock,                 \* the last reading of Instant::now(), in clock ticks
    received,              \* number of messages the MIDI callback has sent
    event_receiver,        \* the messages sent by the callback and not yet taken
    start_time,            \* MidiInput.start_time
    start_time_new,        \* fill_buffers' local start_time_new, -1 outside a call
    event_queue,           \* MidiInput.event_queue
    input_buffer,          \* the out-port "out" of the MidiInput: the block of the last call
    block_start,           \* history: the start_time the last fill_buffers call used
    input_played           \* history: the messages pushed by all calls, block by block
                           \* and sample by sample

inputVars == <<clock, received, event_receiver, start_time, start_time_new, event_queue,
               input_buffer, block_start, input_played>>

\* the state of one MidiPoly module with num_ports voice ports
VARIABLES
    notes,                 \* MidiPoly.notes: the NoteOn events of the held notes, newest first
    midi_out,              \* MidiPoly.midi_out: the voice ports, in the order of the voices
    poly_buffers,          \* the slots of the out-port "out": the blocks of the last call
    fed,                   \* history: the events the module was handed, in order
    emitted                \* history: the events the module pushed, with their port

polyVars == <<notes, midi_out, poly_buffers, fed, emitted>>

\* the state of one Envelope module, the blocks it was handed and the samples it wrote
VARIABLES
    envelope,              \* the fields current_stage, time_elapsed, num_notes and
                           \* release_amplitude of the Envelope
    env_settings,          \* Envelope.settings
    env_out,               \* the out-port "out" of the Envelope: the block of the last call
    env_in,                \* history: the MIDI events handed, sample by sample
    env_played,            \* history: the samples written, in order
    env_stages             \* history: the stages entered while each sample was computed

envVars == <<envelope, env_settings, env_out, env_in, env_played, env_stages>>

moduleVars == <<inputVars, polyVars, envVars>>

vars == <<sinkVars, hostVars, last, schedVars, set_by, moduleVars>>


DoubleBufferName == {"BufferA", "BufferB"}

\* DoubleBufferName::next
DoubleBufferNext(name) == IF name = "BufferA" THEN "BufferB" ELSE "BufferA"

\* a block of BUFFER_LEN copies of v
Block(v) == [i \in 1..BUFFER_LEN |-> v]

\* AudioOutput::get_buffer (contents)
get_buffer(name) == IF name = "BufferA" THEN buffer_a ELSE buffer_b

NoResume == [seen |-> FALSE, got |-> 0, newest |-> 0, complete |-> FALSE]

\* AudioOutput::new
AudioOutputNew ==
    /\ index = 0
    /\ now_reading = "BufferB"
    /\ can_write = TRUE
    /\ out_of_samples = TRUE
    /\ buffer_a = Block(0)
    /\ buffer_b = Block(0)
    /\ state_mutex = "free"
    /\ buffer_mutex = [b \in DoubleBufferName |-> "free"]
    /\ notified = FALSE
    /\ wpc = "idle"
    /\ rpc = "idle"
    /\ write_buffer_name = "BufferA"
    /\ data = Block(0)
    /\ n_written = 0
    /\ returned = 0
    /\ reads = <<>>
    /\ kept_up = TRUE
    /\ underrun = FALSE
    /\ resumed = NoResume

\* a writer that copies into the buffer being read
WriteTargetSame(reading) == reading

\* the name of the buffer write() copies into (output.rs:67)
WriteTarget(reading) == DoubleBufferNext(reading)

\* the graph thread calls write(data) with block number n_written + 1
WriterCall ==
    /\ UNCHANGED <<hostVars, last, schedVars, set_by, moduleVars>>
    /\ wpc = "idle"
    /\ n_written < MaxBlocks
    /\ n_written' = n_written + 1
    /\ data' = Block(n_written + 1)
    /\ wpc' = "lock"
    /\ UNCHANGED <<index, now_reading, can_write, out_of_samples, buffer_a, buffer_b,
                   state_mutex, buffer_mutex, notified, rpc, write_buffer_name,
                   returned, reads, kept_up, underrun, resumed>>

\* write(): state.lock().unwrap(), the while !can_write test, and either the
\* condvar wait (which releases the mutex) or the flag updates (output.rs:61-68)
WriterLock ==
    /\ UNCHANGED <<hostVars, last, schedVars, set_by, moduleVars>>
    /\ wpc = "lock"
    /\ state_mutex # "reader"
    /\ IF state_mutex = "poisoned"
         THEN /\ wpc' = "panic"
              /\ UNCHANGED <<can_write, out_of_samples, write_buffer_name, notified>>
         ELSE IF ~can_write
           THEN /\ wpc' = "wait"
                /\ notified' = FALSE
                /\ UNCHANGED <<can_write, out_of_samples, write_buffer_name>>
           ELSE /\ out_of_samples' = FALSE
                /\ can_write' = FALSE
                /\ write_buffer_name' = WriteTarget(now_reading)
                /\ wpc' = "try_lock"
                /\ UNCHANGED notified
    /\ UNCHANGED <<index, now_reading, buffer_a, buffer_b, state_mutex, buffer_mutex,
                   rpc, data, n_written, returned, reads, kept_up, underrun, resumed>>

\* the condvar wait returns after notify_all (output.rs:63)
WriterNotified ==
    /\ UNCHANGED <<hostVars, last, schedVars, set_by, moduleVars>>
    /\ wpc = "wait"
    /\ notified
    /\ wpc' = "lock"
    /\ notified' = FALSE
    /\ UNCHANGED <<index, now_reading, can_write, out_of_samples, buffer_a, buffer_b,
                   state_mutex, buffer_mutex, rpc, write_buffer_name, data, n_written,
                   returned, reads, kept_up, underrun, resumed>>

\* the condvar wait returns spuriously (std::sync::Condvar allows it)
WriterSpuriousWake ==
    /\ UNCHANGED <<hostVars, last, schedVars, set_by, moduleVars>>
    /\ wpc = "wait"
    /\ ~notified
    /\ wpc' = "lock"
    /\ UNCHANGED <<index, now_reading, can_write, out_of_samples, buffer_a, buffer_b,
                   state_mutex, buffer_mutex, notified, rpc, write_buffer_name, data,
                   n_written, returned, reads, kept_up, underrun, resumed>>

\* write(): get_buffer(write_buffer_name).try_lock().unwrap() (output.rs:69)
WriterTryLock ==
    /\ UNCHANGED <<hostVars, last, schedVars, set_by, moduleVars>>
    /\ wpc = "try_lock"
    /\ IF buffer_mutex[write_buffer_name] = "free"
         THEN /\ buffer_mutex' = [buffer_mutex EXCEPT ![write_buffer_name] = "writer"]
              /\ wpc' = "copy"
         ELSE /\ wpc' = "panic"
              /\ UNCHANGED buffer_mutex
    /\ UNCHANGED <<index, now_reading, can_write, out_of_samples, buffer_a, buffer_b,
                   state_mutex, notified, rpc, write_buffer_name, data, n_written,
                   returned, reads, kept_up, underrun, resumed>>

\* write(): *guard = *data, then the guard is dropped (output.rs:69)
WriterCopy ==
    /\ UNCHANGED <<hostVars, last, schedVars, set_by, moduleVars>>
    /\ wpc = "copy"
    /\ buffer_a' = IF write_buffer_name = "BufferA" THEN data ELSE buffer_a
    /\ buffer_b' = IF write_buffer_name = "BufferB" THEN data ELSE buffer_b
    /\ buffer_mutex' = [buffer_mutex EXCEPT ![write_buffer_name] = "free"]
    /\ wpc' = "idle"
    /\ UNCHANGED <<index, now_reading, can_write, out_of_samples, state_mutex, notified,
                   rpc, write_buffer_name, data, n_written, returned, reads, kept_up,
                   underrun, resumed>>

\* an underrun that plays the sample of the buffer that is not being read
underrun_sample_stale(stale) == stale

\* the value next() returns while out of samples (output.rs:86), whatever the buffers
\* hold
underrun_sample(stale) == 0

\* next(): state.lock().unwrap() and the out_of_samples test (output.rs:84-87)
ReaderLock ==
    /\ UNCHANGED <<hostVars, last, schedVars, set_by, moduleVars>>
    /\ rpc = "idle"
    /\ IF state_mutex = "poisoned"
         THEN /\ rpc' = "panic"
              /\ UNCHANGED <<state_mutex, returned>>
         ELSE IF out_of_samples
           THEN /\ returned' =                                 \* return Some(0.0)
                     underrun_sample(get_buffer(DoubleBufferNext(now_reading))[index + 1])
                /\ UNCHANGED <<rpc, state_mutex>>
           ELSE /\ rpc' = "try_lock"
                /\ state_mutex' = "reader"
                /\ UNCHANGED returned
    /\ UNCHANGED <<index, now_reading, can_write, out_of_samples, buffer_a, buffer_b,
                   buffer_mutex, notified, wpc, write_buffer_name, data, n_written,
                   reads, kept_up, underrun, resumed>>

\* next(): get_buffer(now_reading).try_lock().unwrap() (output.rs:89); a panic
\* unwinds with the state guard held and poisons the state mutex
ReaderTryLock ==
    /\ UNCHANGED <<hostVars, last, schedVars, set_by, moduleVars>>
    /\ rpc = "try_lock"
    /\ IF buffer_mutex[now_reading] = "free"
         THEN /\ buffer_mutex' = [buffer_mutex EXCEPT ![now_reading] = "reader"]
              /\ rpc' = "read"
              /\ UNCHANGED state_mutex
         ELSE /\ rpc' = "panic"
              /\ state_mutex' = "poisoned"
              /\ UNCHANGED buffer_mutex
    /\ UNCHANGED <<index, now_reading, can_write, out_of_samples, buffer_a, buffer_b,
                   notified, wpc, write_buffer_name, data, n_written, returned, reads,
                   kept_up, underrun, resumed>>

\* the writer's copy of the block it announced last is complete
WriteComplete == wpc \notin {"try_lock", "copy", "panic"}

\* the number of the block the writer announced last (a call still at the state mutex
\* has announced nothing)
LastHanded == IF wpc \in {"lock", "wait"} THEN n_written - 1 ELSE n_written

\* an end of buffer that swaps without handing the write permission back
end_of_buffer_keeps_permission(st) ==
    IF st.index < BUFFER_LEN THEN st
    ELSE IF st.can_write THEN [st EXCEPT !.index = 0, !.out_of_samples = TRUE]
    ELSE [st EXCEPT !.index = 0, !.now_reading = DoubleBufferNext(@)]

\* an end of buffer that runs dry whether or not a block was written
end_of_buffer_always_dry(st) ==
    IF st.index < BUFFER_LEN THEN st
    ELSE [st EXCEPT !.index = 0, !.out_of_samples = TRUE]

\* an end of buffer that starts the next buffer at its second sample
end_of_buffer_skips(st) ==
    IF st.index < BUFFER_LEN THEN st
    ELSE IF st.can_write THEN [st EXCEPT !.index = 0, !.out_of_samples = TRUE]
    ELSE [st EXCEPT !.index = 1, !.now_reading = DoubleBufferNext(@),
                    !.can_write = TRUE, !.notify = TRUE]

\* next(): the test of the advanced index (output.rs:92-101) on the fields st of the
\* state; notify: can_write_condvar.notify_all() was called
end_of_buffer(st) ==
    IF st.index < BUFFER_LEN THEN st
    ELSE IF st.can_write THEN [st EXCEPT !.index = 0, !.out_of_samples = TRUE]
    ELSE [st EXCEPT !.index = 0, !.now_reading = DoubleBufferNext(@),
                    !.can_write = TRUE, !.notify = TRUE]

\* next(): the sample is read, the buffer guard dropped, the index advanced and at
\* the end of the buffer either the underrun flag set or the buffers swapped
\* (output.rs:89-103)
ReaderRead ==
    /\ UNCHANGED <<hostVars, last, schedVars, set_by, moduleVars>>
    /\ rpc = "read"
    /\ LET out == get_buffer(now_reading)[index + 1]
           at_end == index + 1 >= BUFFER_LEN
           st == end_of_buffer([index |-> index + 1, now_reading |-> now_reading,
                                can_write |-> can_write,
                                out_of_samples |-> out_of_samples, notify |-> FALSE])
       IN  /\ reads' = Append(reads, out)
           /\ returned' = out
           /\ index' = st.index
           /\ out_of_samples' = st.out_of_samples
           /\ now_reading' = st.now_reading
           /\ can_write' = st.can_write
           /\ notified' = IF st.notify /\ wpc = "wait" THEN TRUE ELSE notified
           /\ kept_up' = IF at_end /\ (can_write \/ ~WriteComplete) THEN FALSE ELSE kept_up
           /\ underrun' = (at_end /\ can_write)
           /\ resumed' = IF underrun /\ ~resumed.seen
                           THEN [seen |-> TRUE, got |-> out, newest |-> LastHanded,
                                 complete |-> WriteComplete]
                           ELSE resumed
    /\ buffer_mutex' = [buffer_mutex EXCEPT ![now_reading] = "free"]
    /\ state_mutex' = "free"
    /\ rpc' = "idle"
    /\ UNCHANGED <<buffer_a, buffer_b, wpc, write_buffer_name, data, n_written>>

(* ------------------------------------------------------------------ *)
(* The host: graph store (host.rs)                                     *)
(* ------------------------------------------------------------------ *)


ElemKinds == {"signal", "midi"}

EmptyMap == [n \in {} |-> 0]

Put(f, k, v) == [n \in DOMAIN f \cup {k} |-> IF n = k THEN v ELSE f[n]]

\* T::default() of an element kind: 0.0 for f32, the empty Vec for MidiEvents
ElemDefault(kind) == IF kind = "signal" THEN 0 ELSE <<>>

\* a constant port that holds silence whatever value it is given
with_constant_silent(value) == [tag |-> "Constant", buffer |-> Block(0)]

\* BufferInPort::with_constant
with_constant(value) == [tag |-> "Constant", buffer |-> Block(value)]

\* BufferInPort::OutBuffer
OutBuffer(handle) == [tag |-> "OutBuffer", out |-> handle]

\* Out<T>::create_port
create_port_out(kind) == [buffer |-> Block(ElemDefault(kind)), dependents |-> <<>>]

\* ModuleBufferHandle
ModuleBufferHandle(m, idx) == [module_handle |-> m, buf_handle |-> idx]

\* ModuleBuffersDescriptor::new, one per element kind, inside ModuleDescriptor::new
ModuleDescriptorNew(num_args) ==
    [num_args |-> num_args,
     signal |-> [next_idx_buf_in |-> 0, next_idx_buf_out |-> 0, buf_in |-> <<>>, buf_out |-> <<>>],
     midi   |-> [next_idx_buf_in |-> 0, next_idx_buf_out |-> 0, buf_in |-> <<>>, buf_out |-> <<>>]]

\* an index step that counts a variadic port as one slot
next_idx_step_one(arity, num_args) == 1

\* the slots a port takes: next_idx += match elem.0 { Single => 1, Variadic => num_args }
next_idx_step(arity, num_args) == IF arity = "Single" THEN 1 ELSE num_args

\* ModuleBuffersDescriptor::add_buf_in; out is the index the call returns, which the
\* module keeps in its handle of the port
add_buf_in(desc, kind, arity, name, default) ==
    [desc EXCEPT ![kind].next_idx_buf_in = @ + next_idx_step(arity, desc.num_args),
                 ![kind].buf_in = Append(@, [arity |-> arity, name |-> name, elem |-> default,
                                             out |-> desc[kind].next_idx_buf_in])]

\* ModuleBuffersDescriptor::add_buf_out
add_buf_out(desc, kind, arity, name) ==
    [desc EXCEPT ![kind].next_idx_buf_out = @ + next_idx_step(arity, desc.num_args),
                 ![kind].buf_out = Append(@, [arity |-> arity, name |-> name, elem |-> "unit",
                                              out |-> desc[kind].next_idx_buf_out])]

\* Module::init of a module type of a caller: it declares the ports of the list decls,
\* in order, with with_buf_in, with_buf_out and their variadic forms
RECURSIVE Declare(_, _)
Declare(desc, decls) ==
    IF decls = <<>> THEN desc
    ELSE LET p == Head(decls) IN
         Declare(IF p.dir = "in"
                   THEN add_buf_in(desc, p.kind, p.arity, p.name, ElemDefault(p.kind))
                   ELSE add_buf_out(desc, p.kind, p.arity, p.name),
                 Tail(decls))

\* Module::init of a module type of a caller returns Err(Self::Error): always for the
\* type "Failing", and for the type "Exclusive", which claims a resource only one module
\* can hold, when a module of the type exists already
init_fails(type, mods) ==
    \/ type = "Failing"
    \/ type = "Exclusive" /\ \E m \in DOMAIN mods : mods[m].type = "Exclusive"

\* Module::init of the module types of the repository: the ports each declares
ModuleInit(type, settings, num_args) ==
    LET d == ModuleDescriptorNew(num_args) IN
    CASE type = "Custom" -> Declare(d, settings)
      [] type = "Failing" -> d
      [] type = "Exclusive" -> add_buf_out(d, "signal", "Single", "out")
      [] type = "AudioOutputModule" ->
           add_buf_in(d, "signal", "Single", "in", 0)
      [] type = "MidiInput" ->
           add_buf_out(d, "midi", "Single", "out")
      [] type = "MidiSlider" ->
           add_buf_out(add_buf_in(d, "midi", "Single", "in", <<>>),
                       "signal", "Single", "out")
      [] type = "MidiPoly" ->
           add_buf_in(add_buf_out(d, "midi", "Variadic", "out"),
                      "midi", "Single", "in", <<>>)
      [] type = "Op" ->
           add_buf_out(add_buf_in(d, "signal", "Variadic", "in",
                                  IF settings = "Multiply" THEN 1 ELSE 0),
                       "signal", "Single", "out")
      [] type = "Envelope" ->
           add_buf_out(add_buf_in(add_buf_in(d, "midi", "Single", "in", <<>>),
                                  "signal", "Single", "in", 0),
                       "signal", "Single", "out")

\* an add_buffer that does not look the name up: the later port takes the name
add_buffer_unchecked(ports, marker, port, name) ==
    LET handle == Len(ports.buffers) IN
    [ports EXCEPT
       !.buffers = IF marker = "Single" THEN Append(@, port)
                   ELSE @ \o [i \in 1..ports.num_args |-> port],
       !.handles = Put(@, name, [arity |-> marker, idx |-> handle,
                                 num_args |-> ports.num_args])]

\* BufferPorts::add_buffer; ports.ok = FALSE stands for Err(DuplicateBufferIdentifier)
add_buffer(ports, marker, port, name) ==
    IF ~ports.ok THEN ports
    ELSE IF name \in DOMAIN ports.handles
      THEN [ports EXCEPT !.ok = FALSE]
      ELSE LET handle == Len(ports.buffers) IN
           [ports EXCEPT
              !.buffers = IF marker = "Single" THEN Append(@, port)
                          ELSE @ \o [i \in 1..ports.num_args |-> port],
              !.handles = Put(@, name, [arity |-> marker, idx |-> handle,
                                        num_args |-> ports.num_args])]

RECURSIVE BufferPortsFill(_, _, _, _, _)
BufferPortsFill(ports, elems, dir, kind, i) ==
    IF i > Len(elems) THEN ports
    ELSE BufferPortsFill(
           add_buffer(ports, elems[i].arity,
                      IF dir = "in" THEN with_constant(elems[i].elem)
                      ELSE create_port_out(kind),
                      elems[i].name),
           elems, dir, kind, i + 1)

\* BufferPorts::new for direction dir and element kind
BufferPortsNew(desc, dir, kind) ==
    BufferPortsFill([ok |-> TRUE, num_args |-> desc.num_args, buffers |-> <<>>,
                     handles |-> EmptyMap],
                    IF dir = "in" THEN desc[kind].buf_in ELSE desc[kind].buf_out,
                    dir, kind, 1)

\* ModuleInternals::new with ModuleBuffersInInternal::new and ModuleBuffersOutInternal::new;
\* mods are the modules made so far, which the init of a caller's type may depend on
ModuleInternalsNew(type, settings, num_args, mods) ==
    LET internals(desc) ==
          LET bin == [k \in ElemKinds |-> BufferPortsNew(desc, "in", k)]
              bout == [k \in ElemKinds |-> BufferPortsNew(desc, "out", k)]
          IN [ok |-> ~init_fails(type, mods) /\ \A k \in ElemKinds : bin[k].ok /\ bout[k].ok,
              err |-> IF init_fails(type, mods) THEN "Custom"
                      ELSE "DuplicateBufferIdentifier",
              module |-> [type |-> type, settings |-> settings, num_args |-> num_args,
                          num_dependencies |-> 0, num_finished_dependencies |-> 0,
                          buf_in |-> bin, buf_out |-> bout]]
    IN CHOOSE new \in {internals(desc) : desc \in {ModuleInit(type, settings, num_args)}} :
         TRUE

\* the host as one value, for the operators below
HostRec == [modules |-> modules, module_handles |-> module_handles,
            next_module_idx |-> next_module_idx, groups |-> groups,
            group_handles |-> group_handles, next_group_idx |-> next_group_idx]

\* a create_variadic_module_anonymous that takes the module index before the init
create_variadic_module_anonymous_eager(h, type, settings, num_args) ==
    LET new == ModuleInternalsNew(type, settings, num_args, h.modules) IN
    IF ~new.ok THEN [res |-> new.err, host |-> [h EXCEPT !.next_module_idx = @ + 1],
                     handle |-> 0]
    ELSE [res |-> "Ok",
          host |-> [h EXCEPT !.next_module_idx = @ + 1,
                             !.modules = Put(@, h.next_module_idx, new.module)],
          handle |-> h.next_module_idx]

\* Host::create_variadic_module_anonymous
create_variadic_module_anonymous(h, type, settings, num_args) ==
    LET new == ModuleInternalsNew(type, settings, num_args, h.modules) IN
    IF ~new.ok THEN [res |-> new.err, host |-> h, handle |-> 0]
    ELSE [res |-> "Ok",
          host |-> [h EXCEPT !.next_module_idx = @ + 1,
                             !.modules = Put(@, h.next_module_idx, new.module)],
          handle |-> h.next_module_idx]

\* a create_variadic_module that does not look the name up
create_variadic_module_unchecked(h, name, type, settings, num_args) ==
    LET r == create_variadic_module_anonymous(h, type, settings, num_args) IN
    IF r.res # "Ok" THEN [res |-> "ModuleInit", source |-> r.res, host |-> r.host, handle |-> 0]
    ELSE [res |-> "Ok", source |-> "none",
          host |-> [r.host EXCEPT !.module_handles = Put(@, name, r.handle)],
          handle |-> r.handle]

\* Host::create_variadic_module (create_module is the call with num_args = 0)
create_variadic_module(h, name, type, settings, num_args) ==
    IF name \in DOMAIN h.module_handles
      THEN [res |-> "DuplicateIdentifier", source |-> "none", host |-> h, handle |-> 0]
      ELSE LET r == create_variadic_module_anonymous(h, type, settings, num_args) IN
           IF r.res # "Ok"
             THEN [res |-> "ModuleInit", source |-> r.res, host |-> r.host, handle |-> 0]
             ELSE [res |-> "Ok", source |-> "none",
                   host |-> [r.host EXCEPT !.module_handles = Put(@, name, r.handle)],
                   handle |-> r.handle]

OUTPUT_MODULE_NAME == "audio_out"

\* Host::new
HostNew ==
    create_variadic_module(
        [modules |-> EmptyMap, module_handles |-> EmptyMap, next_module_idx |-> 0,
         groups |-> EmptyMap, group_handles |-> EmptyMap, next_group_idx |-> 0],
        OUTPUT_MODULE_NAME, "AudioOutputModule", "unit", 0)

\* a get_handle that does not look at the arity of the port
get_handle_any_arity(ports, name) ==
    IF name \notin DOMAIN ports.handles
      THEN [res |-> "NonexistentIdentifier"]
      ELSE [res |-> "Ok", handle |-> ports.handles[name].idx]

\* BufferPorts::get_handle
get_handle(ports, name) ==
    IF name \notin DOMAIN ports.handles
      THEN [res |-> "NonexistentIdentifier"]
      ELSE IF ports.handles[name].arity = "Single"
        THEN [res |-> "Ok", handle |-> ports.handles[name].idx]
        ELSE [res |-> "UnexpectedBufferArity", expected |-> "Single", found |-> "Variadic"]

\* BufferPorts::get_variadic_handle
get_variadic_handle(ports, name) ==
    IF name \notin DOMAIN ports.handles
      THEN [res |-> "NonexistentIdentifier"]
      ELSE IF ports.handles[name].arity = "Variadic"
        THEN [res |-> "Ok", handle |-> [num_args |-> ports.handles[name].num_args,
                                        buffer |-> ports.handles[name].idx]]
        ELSE [res |-> "UnexpectedBufferArity", expected |-> "Single", found |-> "Variadic"]

\* T::get_buffers for direction dir and element kind
get_buffers(module, dir, kind) ==
    IF dir = "in" THEN module.buf_in[kind] ELSE module.buf_out[kind]

\* Host::buf
buf(mods, dir, kind, handle, name) ==
    LET r == get_handle(get_buffers(mods[handle], dir, kind), name) IN
    IF r.res = "Ok" THEN [res |-> "Ok", handle |-> ModuleBufferHandle(handle, r.handle)]
    ELSE r

\* Host::variadic_buf
variadic_buf(mods, dir, kind, handle, name) ==
    LET r == get_variadic_handle(get_buffers(mods[handle], dir, kind), name) IN
    IF r.res = "Ok" THEN [res |-> "Ok", handle |-> [module_handle |-> handle,
                                                    buf_handle |-> r.handle]]
    ELSE r

\* VariadicBufferHandle::at inside ModuleVariadicBufferHandle::at
variadic_at(vhandle, idx) ==
    IF idx >= vhandle.buf_handle.num_args
      THEN [res |-> "VariadicBufferOutOfBounds"]
      ELSE [res |-> "Ok",
            handle |-> ModuleBufferHandle(vhandle.module_handle,
                                          vhandle.buf_handle.buffer + idx)]

\* the in-port a handle names
get_port(mods, kind, port_handle) ==
    mods[port_handle.module_handle].buf_in[kind].buffers[port_handle.buf_handle + 1]

\* a counter change that looks only at the new port state
num_dependencies_delta_new_only(port, new) == IF new.tag = "OutBuffer" THEN 1 ELSE -1

\* a count that moves on every link, whatever the port held
num_dependencies_delta_every_link(port, new) ==
    IF port.tag = "OutBuffer" /\ new.tag = "Constant" THEN -1
    ELSE IF new.tag = "OutBuffer" THEN 1
    ELSE 0

\* set_buffer_in: the change of num_dependencies, by old and new port state
\* (host.rs:813-834)
num_dependencies_delta(port, new) ==
    IF port.tag = "OutBuffer" /\ new.tag = "Constant" THEN -1
    ELSE IF port.tag = "Constant" /\ new.tag = "OutBuffer" THEN 1
    ELSE 0

\* a retain that removes nothing
retain_all(dependents, port_handle) == dependents

\* set_buffer_in: dependents.retain(|d| d != &port_handle) (host.rs:838-844)
retain(dependents, port_handle) == SelectSeq(dependents, LAMBDA d : d # port_handle)

\* Host::set_buffer_in
set_buffer_in(mods, kind, port_handle, new) ==
    LET m == port_handle.module_handle
        slot == port_handle.buf_handle + 1
        port == get_port(mods, kind, port_handle)
        delta == num_dependencies_delta(port, new)
        mods1 == [mods EXCEPT ![m].num_dependencies = @ + delta,
                              ![m].buf_in[kind].buffers[slot] = new]
        mods2 == IF port.tag = "OutBuffer"
                   THEN [mods1 EXCEPT
                           ![port.out.module_handle].buf_out[kind]
                               .buffers[port.out.buf_handle + 1].dependents =
                               retain(@, port_handle)]
                   ELSE mods1
    IN IF new.tag = "OutBuffer"
         THEN [mods2 EXCEPT
                 ![new.out.module_handle].buf_out[kind]
                     .buffers[new.out.buf_handle + 1].dependents =
                     Append(@, port_handle)]
         ELSE mods2

\* Host::link
link(mods, kind, buf_out, buf_in) == set_buffer_in(mods, kind, buf_in, OutBuffer(buf_out))

\* Host::link_value
link_value(mods, kind, value, buf_in) == set_buffer_in(mods, kind, buf_in, with_constant(value))

(* ------------------------------------------------------------------ *)
(* Groups (host.rs)                                                    *)
(* ------------------------------------------------------------------ *)

\* the elements of a sequence
Range(s) == {s[i] : i \in 1..Len(s)}

\* Host::create_group; named_instances = <<>> stands for None as well
create_group(h, name, anonymous_instances, named_instances) ==
    IF name \in DOMAIN h.group_handles
      THEN [res |-> "DuplicateIdentifier", host |-> h, handle |-> 0]
      ELSE IF \E i, j \in 1..Len(named_instances) : i < j /\ named_instances[i] = named_instances[j]
        THEN [res |-> "DuplicateIdentifier", host |-> h, handle |-> 0]
        ELSE LET idx == h.next_group_idx
                 group ==
                   [num_instances |-> anonymous_instances + Len(named_instances),
                    named_instances |->
                      [n \in Range(named_instances) |->
                         [group |-> idx,
                          offset |-> (CHOOSE i \in 1..Len(named_instances) :
                                        named_instances[i] = n) - 1]],
                    handles |-> EmptyMap]
             IN [res |-> "Ok",
                 host |-> [h EXCEPT !.next_group_idx = @ + 1,
                                    !.groups = Put(@, idx, group),
                                    !.group_handles = Put(@, name, idx)],
                 handle |-> idx]

\* a create_group_joining_module that does not look the name up
create_group_joining_module_unchecked(h, group_handle, name, type, settings) ==
    LET r == create_variadic_module_anonymous(
                 h, type, settings, h.groups[group_handle].num_instances)
    IN IF r.res # "Ok" THEN [res |-> "GroupedModuleInit", host |-> r.host]
       ELSE [res |-> "Ok",
             host |-> [r.host EXCEPT
                         !.groups[group_handle].handles =
                           Put(@, name, [tag |-> "Joining", group |-> group_handle,
                                         handles |-> <<r.handle>>])]]

\* Host::create_group_joining_module
create_group_joining_module(h, group_handle, name, type, settings) ==
    IF name \in DOMAIN h.groups[group_handle].handles
      THEN [res |-> "DuplicateIdentifier", host |-> h]
      ELSE LET r == create_variadic_module_anonymous(
                        h, type, settings, h.groups[group_handle].num_instances)
           IN IF r.res # "Ok" THEN [res |-> "GroupedModuleInit", host |-> r.host]
              ELSE [res |-> "Ok",
                    host |-> [r.host EXCEPT
                                !.groups[group_handle].handles =
                                  Put(@, name, [tag |-> "Joining", group |-> group_handle,
                                                handles |-> <<r.handle>>])]]

\* a sibling loop that creates one module whatever the instance count
CreateSiblingsOnce(h, type, settings, num_args, left, acc) ==
    LET r == create_variadic_module_anonymous(h, type, settings, num_args) IN
    [res |-> r.res, host |-> r.host, handles |-> <<r.handle>>]

\* the (0..num_instances).map(create_variadic_module_anonymous).collect() of
\* create_group_instance_variadic_module: it stops at the first error
RECURSIVE CreateSiblings(_, _, _, _, _, _)
CreateSiblings(h, type, settings, num_args, left, acc) ==
    IF left = 0 THEN [res |-> "Ok", host |-> h, handles |-> acc]
    ELSE LET r == create_variadic_module_anonymous(h, type, settings, num_args) IN
         IF r.res # "Ok" THEN [res |-> r.res, host |-> r.host, handles |-> acc]
         ELSE CreateSiblings(r.host, type, settings, num_args, left - 1,
                             Append(acc, r.handle))

\* Host::create_group_instance_variadic_module (create_group_instance_module is the
\* call with num_args = 0)
create_group_instance_variadic_module(h, group_handle, name, type, settings, num_args) ==
    IF name \in DOMAIN h.groups[group_handle].handles
      THEN [res |-> "DuplicateIdentifier", host |-> h]
      ELSE LET r == CreateSiblings(h, type, settings, num_args,
                                   h.groups[group_handle].num_instances, <<>>)
           IN IF r.res # "Ok" THEN [res |-> "GroupedModuleInit", host |-> r.host]
              ELSE [res |-> "Ok",
                    host |-> [r.host EXCEPT
                                !.groups[group_handle].handles =
                                  Put(@, name, [tag |-> "Instance", group |-> group_handle,
                                                handles |-> r.handles])]]

\* ModuleVariadicBufferHandle::all
variadic_all(vhandle, group) ==
    [group |-> group,
     handles |-> [i \in 1..vhandle.buf_handle.num_args |-> variadic_at(vhandle, i - 1).handle]]

\* Host::group_joining_buf
group_joining_buf(mods, dir, kind, handle, name) ==
    LET r == variadic_buf(mods, dir, kind, handle.handles[1], name) IN
    IF r.res = "Ok" THEN [res |-> "Ok", handle |-> variadic_all(r.handle, handle.group)]
    ELSE r

\* Host::group_instance_buf
group_instance_buf(mods, dir, kind, handle, name) ==
    LET rs == [i \in 1..Len(handle.handles) |-> buf(mods, dir, kind, handle.handles[i], name)]
    IN IF \E i \in 1..Len(rs) : rs[i].res # "Ok"
         THEN rs[CHOOSE i \in 1..Len(rs) :
                    rs[i].res # "Ok" /\ \A j \in 1..(i - 1) : rs[j].res = "Ok"]
         ELSE [res |-> "Ok",
               handle |-> [group |-> handle.group,
                           handles |-> [i \in 1..Len(rs) |-> rs[i].handle]]]

\* Host::group_instance_variadic_buf followed by GroupVariadicBufferHandle::at
group_instance_variadic_buf_at(mods, dir, kind, handle, name, idx) ==
    LET rs == [i \in 1..Len(handle.handles) |->
                 LET v == variadic_buf(mods, dir, kind, handle.handles[i], name) IN
                 IF v.res = "Ok" THEN variadic_at(v.handle, idx) ELSE v]
    IN IF \E i \in 1..Len(rs) : rs[i].res # "Ok"
         THEN rs[CHOOSE i \in 1..Len(rs) :
                    rs[i].res # "Ok" /\ \A j \in 1..(i - 1) : rs[j].res = "Ok"]
         ELSE [res |-> "Ok",
               handle |-> [group |-> handle.group,
                           handles |-> [i \in 1..Len(rs) |-> rs[i].handle]]]

Min(a, b) == IF a < b THEN a ELSE b

\* the loop of link_group over handles_out.zip(handles_in)
RECURSIVE LinkZip(_, _, _, _, _)
LinkZip(mods, kind, handles_out, handles_in, i) ==
    IF i > Min(Len(handles_out), Len(handles_in)) THEN mods
    ELSE LinkZip(link(mods, kind, handles_out[i], handles_in[i]),
                 kind, handles_out, handles_in, i + 1)

\* a link_group that does not compare the groups
link_group_unchecked(mods, kind, buf_out, buf_in) ==
    [res |-> "Ok", modules |-> LinkZip(mods, kind, buf_out.handles, buf_in.handles, 1)]

\* Host::link_group
link_group(mods, kind, buf_out, buf_in) ==
    IF buf_out.group # buf_in.group
      THEN [res |-> "BufferGroupMismatch", modules |-> mods]
      ELSE [res |-> "Ok",
            modules |-> LinkZip(mods, kind, buf_out.handles, buf_in.handles, 1)]

\* a link_group_ext that links the first handle only
link_group_ext_first(mods, kind, buf_out, handles_in, i) ==
    IF handles_in = <<>> THEN mods ELSE link(mods, kind, buf_out, handles_in[1])

\* Host::link_group_ext
RECURSIVE link_group_ext(_, _, _, _, _)
link_group_ext(mods, kind, buf_out, handles_in, i) ==
    IF i > Len(handles_in) THEN mods
    ELSE link_group_ext(link(mods, kind, buf_out, handles_in[i]),
                        kind, buf_out, handles_in, i + 1)

\* Host::link_group_value
RECURSIVE link_group_value(_, _, _, _, _)
link_group_value(mods, kind, value, handles_in, i) ==
    IF i > Len(handles_in) THEN mods
    ELSE link_group_value(link_value(mods, kind, value, handles_in[i]),
                          kind, value, handles_in, i + 1)

(* ------------------------------------------------------------------ *)
(* The scheduler: Host::process and Host::process_module (host.rs)     *)
(* ------------------------------------------------------------------ *)


RECURSIVE Flatten(_)
Flatten(ss) == IF ss = <<>> THEN <<>> ELSE Head(ss) \o Flatten(Tail(ss))

\* process_module::get_linked_ports
get_linked_ports(mods, module, kind) ==
    [i \in 1..Len(module.buf_in[kind].buffers) |->
       LET port == module.buf_in[kind].buffers[i] IN
       IF port.tag = "OutBuffer"
         THEN mods[port.out.module_handle].buf_out[kind]
                  .buffers[port.out.buf_handle + 1].buffer
         ELSE port.buffer]

\* a get_dependents that gives each subscribed module once, however many of its
\* in-ports are subscribed
get_dependents_distinct(module, kind) ==
    LET deps == Flatten([i \in 1..Len(module.buf_out[kind].buffers) |->
                           module.buf_out[kind].buffers[i].dependents])
        kept == SelectSeq([i \in 1..Len(deps) |-> <<i, deps[i].module_handle>>],
                          LAMBDA q : \A j \in 1..(q[1] - 1) : deps[j].module_handle # q[2])
    IN [i \in 1..Len(kept) |-> kept[i][2]]

\* a get_dependents that stops after the first subscriber
get_dependents_first(module, kind) ==
    LET deps == Flatten([i \in 1..Len(module.buf_out[kind].buffers) |->
                           module.buf_out[kind].buffers[i].dependents])
    IN [i \in 1..Min(1, Len(deps)) |-> deps[i].module_handle]

\* process_module::get_dependents
get_dependents(module, kind) ==
    LET deps == Flatten([i \in 1..Len(module.buf_out[kind].buffers) |->
                           module.buf_out[kind].buffers[i].dependents])
    IN [i \in 1..Len(deps) |-> deps[i].module_handle]

RECURSIVE OpFold(_, _, _, _)
OpFold(op, inputs, i, k) ==
    IF k = 0 THEN (IF op = "Multiply" THEN 1 ELSE 0)
    ELSE LET acc == OpFold(op, inputs, i, k - 1) IN
         CASE op = "Add" -> acc + inputs[k][i]
           [] op = "Multiply" -> acc * inputs[k][i]
           [] op = "Negate" -> acc - inputs[k][i]

\* Op::fill_buffers: the first n samples of the output block
RECURSIVE OpFill(_, _, _)
OpFill(op, inputs, n) ==
    IF n = 0 THEN <<>>
    ELSE Append(OpFill(op, inputs, n - 1), OpFold(op, inputs, n, Len(inputs)))

\* Module::fill_buffers as called by process_module: the module's out-ports after it.
\* Op computes its block; AudioOutputModule has no out-port (it hands its input to the
\* sink); the MIDI modules are not run by this model
fill_buffers(mods, handle) ==
    LET module == mods[handle] IN
    IF module.type = "Op"
      THEN [mods EXCEPT ![handle].buf_out["signal"].buffers[1].buffer =
                          OpFill(module.settings, get_linked_ports(mods, module, "signal"), BUFFER_LEN)]
      ELSE mods

\* a readiness test that compares the counter before the increment
NotReadyOld(finished, num_dependencies) == finished - 1 < num_dependencies

\* a readiness test that lets only the first call through
NotReadyAfterFirst(finished, num_dependencies) == finished > 1

\* a readiness test that lets the first call through as well
NotReadyButFirst(finished, num_dependencies) ==
    finished # 1 /\ finished # num_dependencies

\* the readiness test of process_module (host.rs:1026-1034): TRUE when it returns early
NotReady(finished, num_dependencies) == finished < num_dependencies

\* Host::process_module on the run state st = [modules, log, handed, sink_in, called], up to its
\* loop over the dependents: the counter, the early return, fill_buffers (logged); the
\* dependents are the calls the loop makes next, signal subscribers first
process_module(st, handle) ==
    LET mods == st.modules
        finished == mods[handle].num_finished_dependencies + 1
        mods1 == [mods EXCEPT ![handle].num_finished_dependencies = finished]
    IN IF NotReady(finished, mods[handle].num_dependencies)
         THEN [st |-> [st EXCEPT !.modules = mods1], dependents |-> <<>>]
         ELSE [st |-> [modules |-> fill_buffers(mods1, handle),
                       log |-> Append(st.log, handle),
                       handed |-> Append(st.handed,
                                         get_linked_ports(mods1, mods1[handle], "signal")),
                       sink_in |-> IF mods[handle].type = "AudioOutputModule"
                                     THEN get_linked_ports(mods1, mods1[handle], "signal")[1]
                                     ELSE st.sink_in,
                       called |-> st.called],
               dependents |-> get_dependents(mods1[handle], "signal")
                                \o get_dependents(mods1[handle], "midi")]

\* the caller of the process_module calls that Host::process makes itself
HostLoop == -1

\* the calls process_module(to) that the caller by makes in its loop
CallsOf(by, dependents) == [i \in 1..Len(dependents) |-> [by |-> by, to |-> dependents[i]]]

\* the calls of process_module still to make, innermost loop first: a call that filled
\* its module recurses into its dependents before the caller's loop goes on
\* (host.rs:1048-1052); every call made is recorded in called
RECURSIVE process_dependents(_, _)
process_dependents(st, calls) ==
    IF calls = <<>> THEN st
    ELSE LET call == Head(calls)
             r == process_module([st EXCEPT !.called = Append(@, call)], call.to)
         IN process_dependents(r.st, CallsOf(call.to, r.dependents) \o Tail(calls))

\* a start of pass that sets the counters one below zero
reset_counters_below(mods) ==
    [m \in DOMAIN mods |-> [mods[m] EXCEPT !.num_finished_dependencies = -1]]

\* Host::process: num_finished_dependencies of every module is set to 0
\* (host.rs:961-963)
reset_counters(mods) ==
    [m \in DOMAIN mods |-> [mods[m] EXCEPT !.num_finished_dependencies = 0]]

\* one iteration of the loop of Host::process: the counters are zeroed, the modules
\* without dependencies collected, and process_module called on each of them; the
\* HashMap gives them in the order zero_dependency_mods
process(mods, zero_dependency_mods, sunk) ==
    process_dependents(
        [modules |-> reset_counters(mods),
         log |-> <<>>,
         handed |-> <<>>,
         sink_in |-> sunk,
         called |-> <<>>],
        CallsOf(HostLoop, zero_dependency_mods))

(* ------------------------------------------------------------------ *)
(* MidiInput (midi.rs)                                                 *)
(* ------------------------------------------------------------------ *)

\* a block of BUFFER_LEN empty event lists
EmptyEvents == [i \in 1..BUFFER_LEN |-> <<>>]

\* MidiInput::init: the fields of the module and its cleared out-port
MidiInputInit ==
    /\ clock = 0
    /\ received = 0
    /\ event_receiver = <<>>
    /\ start_time = 0
    /\ start_time_new = -1
    /\ event_queue = <<>>
    /\ input_buffer = EmptyEvents
    /\ block_start = 0
    /\ input_played = <<>>

\* the sample index fill_buffers gives a message (midi.rs:126-135):
\* checked_duration_since (zero for a message older than start), times SAMPLE_RATE,
\* cast to usize
event_idx(raw, start) ==
    IF raw.time_received >= start
      THEN (raw.time_received - start) \div TicksPerSample
      ELSE 0

\* the loop of fill_buffers up to its break: the position (from 0) of the first message
\* of the queue whose index is BUFFER_LEN or more, Len(queue) standing for None
cutoff(queue, start) ==
    IF \E i \in 1..Len(queue) : event_idx(queue[i], start) >= BUFFER_LEN
      THEN (CHOOSE i \in 1..Len(queue) :
              /\ event_idx(queue[i], start) >= BUFFER_LEN
              /\ \A j \in 1..(i - 1) : event_idx(queue[j], start) < BUFFER_LEN) - 1
      ELSE Len(queue)

\* the loop of fill_buffers: the messages before the cutoff, pushed in queue order to
\* the event list of their index
pushed(queue, start, upto) ==
    [k \in 1..BUFFER_LEN |->
       SelectSeq(SubSeq(queue, 1, upto), LAMBDA raw : event_idx(raw, start) = k - 1)]

\* a drain that empties the queue
drain_all(queue, upto) == <<>>

\* event_queue.drain(0..i) for a cutoff i, event_queue.clear() without one
\* (midi.rs:143-147)
drain(queue, upto) == SubSeq(queue, upto + 1, Len(queue))

\* Instant::now(): the clock is read `later` ticks after its last reading
Now(later) ==
    /\ clock + later <= MaxClock
    /\ clock' = clock + later

\* the callback of MidiInput::init: a message is stamped with Instant::now() and sent
\* (midi.rs:96-101)
MidiCallback(later) ==
    /\ received < MaxEvents
    /\ Now(later)
    /\ received' = received + 1
    /\ event_receiver' = Append(event_receiver,
                                [message |-> received + 1, time_received |-> clock'])
    /\ UNCHANGED <<start_time, start_time_new, event_queue, input_buffer, block_start,
                   input_played>>
    /\ UNCHANGED <<sinkVars, hostVars, last, schedVars, set_by, polyVars, envVars>>

\* MidiInput::fill_buffers, its first statement: start_time_new = Instant::now()
MidiInputNow(later) ==
    /\ start_time_new = -1
    /\ Now(later)
    /\ start_time_new' = clock'
    /\ UNCHANGED <<received, event_receiver, start_time, event_queue, input_buffer,
                   block_start, input_played>>
    /\ UNCHANGED <<sinkVars, hostVars, last, schedVars, set_by, polyVars, envVars>>

\* MidiInput::fill_buffers, the rest: the pending messages join the queue, the block is
\* cleared and filled, the emitted messages are drained, start_time is replaced
MidiInputFill ==
    /\ start_time_new # -1
    /\ LET queue == event_queue \o event_receiver
           upto == cutoff(queue, start_time)
       IN /\ input_buffer' = pushed(queue, start_time, upto)
          /\ event_queue' = drain(queue, upto)
          /\ input_played' = input_played \o Flatten(pushed(queue, start_time, upto))
    /\ event_receiver' = <<>>
    /\ block_start' = start_time
    /\ start_time' = start_time_new
    /\ start_time_new' = -1
    /\ UNCHANGED <<clock, received>>
    /\ UNCHANGED <<sinkVars, hostVars, last, schedVars, set_by, polyVars, envVars>>

(* ------------------------------------------------------------------ *)
(* MidiPoly (midi.rs)                                                  *)
(* ------------------------------------------------------------------ *)

\* the num_ports the MidiPoly is created with
num_ports == 2

NoteOn(key) == [message |-> "NoteOn", key |-> key]

NoteOff(key) == [message |-> "NoteOff", key |-> key]

\* a message that is neither NoteOn nor NoteOff
Controller == [message |-> "Controller", key |-> 0]

\* a MidiEvent::Realtime event: no channel message at all
TimingClock == [message |-> "Realtime", key |-> 0]

\* if let MidiEvent::Midi { message, .. } = event (midi.rs:256)
is_midi(event) == event.message # "Realtime"

\* the events a caller hands to the module
PolyEvents == {NoteOn(60), NoteOn(62), NoteOn(64), NoteOff(60), NoteOff(62), NoteOff(64),
               Controller, TimingClock}

\* the events of the run: three notes pressed, the second released
Scenario == <<NoteOn(60), NoteOn(62), NoteOn(64), NoteOff(62)>>

\* MidiPoly::init: the fields of the module and its cleared out-port slots
MidiPolyInit ==
    /\ notes = <<>>
    /\ midi_out = [i \in 1..num_ports |-> i - 1]
    /\ poly_buffers = [p \in 0..(num_ports - 1) |-> EmptyEvents]
    /\ fed = <<>>
    /\ emitted = <<>>

\* Vec::remove(idx), idx from 0
Remove(v, idx) == SubSeq(v, 1, idx) \o SubSeq(v, idx + 2, Len(v))

\* a NoteOn that always takes the port of the newest voice
free_slot_newest(held) == 0

\* a NoteOn that always takes the port at the end of midi_out
free_slot_last(held) == num_ports - 1

\* the position in midi_out of the port a new note gets (midi.rs:261)
free_slot(held) == Min(held, num_ports - 1)

\* a NoteOff that never resurrects a note
resurrected_never(left, event) == event

\* the event a NoteOff pushes to the freed port: the stored NoteOn of the note that is
\* now at position num_ports - 1 of the list, the NoteOff without one (midi.rs:276-280)
resurrected(left, event) ==
    IF Len(left) >= num_ports THEN left[num_ports] ELSE event

\* buffers_out.get(port)[i].push(event), recorded in the history
Push(p, port, i, event) ==
    [p EXCEPT !.buffers[port][i] = Append(@, event),
              !.emitted = Append(@, [port |-> port, event |-> event])]

RECURSIVE PushAll(_, _, _, _)
PushAll(p, port, i, event) ==
    IF port >= num_ports THEN p
    ELSE PushAll(Push(p, port, i, event), port + 1, i, event)

\* the body of the loops of MidiPoly::fill_buffers for one event of sample i
\* (midi.rs:258-288), on p = [notes, midi_out, buffers, emitted]
poly_event(p, i, event) ==
    CASE ~is_midi(event) -> p
      [] event.message = "NoteOn" ->
           IF \A n \in 1..Len(p.notes) : p.notes[n].key # event.key
             THEN LET slot == free_slot(Len(p.notes))
                      free_buf == p.midi_out[slot + 1]
                      q == Push(p, free_buf, i, event)
                  IN [q EXCEPT !.midi_out = <<free_buf>> \o Remove(p.midi_out, slot),
                               !.notes = <<event>> \o p.notes]
             ELSE p
      [] event.message = "NoteOff" ->
           IF \E n \in 1..Len(p.notes) : p.notes[n].key = event.key
             THEN LET idx == (CHOOSE n \in 1..Len(p.notes) : p.notes[n].key = event.key) - 1
                      left == Remove(p.notes, idx)
                  IN IF idx < num_ports
                       THEN LET old_buf == p.midi_out[idx + 1]
                                q == Push(p, old_buf, i, resurrected(left, event))
                            IN [q EXCEPT !.notes = left,
                                         !.midi_out = Append(Remove(p.midi_out, idx), old_buf)]
                       ELSE [p EXCEPT !.notes = left]
             ELSE p
      [] OTHER -> PushAll(p, 0, i, event)

\* the loops of MidiPoly::fill_buffers over the samples from i on and their events
RECURSIVE poly_fill(_, _, _)
poly_fill(p, block, i) ==
    IF i > BUFFER_LEN THEN p
    ELSE IF block[i] = <<>> THEN poly_fill(p, block, i + 1)
    ELSE poly_fill(poly_event(p, i, Head(block[i])),
                   [block EXCEPT ![i] = Tail(@)], i)

\* the event sequences a caller feeds: any events up to the length of the scenario, and
\* the scenario followed by any one or two events
Fed(events) ==
    \/ Len(events) <= Len(Scenario)
    \/ /\ Len(events) > Len(Scenario)
       /\ Len(events) <= Len(Scenario) + 2
       /\ SubSeq(events, 1, Len(Scenario)) = Scenario

\* the blocks a caller hands to the in-port "in": at most one event per sample
PolyBlocks == [1..BUFFER_LEN -> {<<>>} \cup {<<e>> : e \in PolyEvents}]

\* MidiPoly::fill_buffers on the input block: the out-port slots are cleared, then the
\* events handled sample by sample
MidiPolyFill(block) ==
    /\ Fed(fed \o Flatten(block))
    /\ LET p == poly_fill([notes |-> notes, midi_out |-> midi_out,
                           buffers |-> [q \in 0..(num_ports - 1) |-> EmptyEvents],
                           emitted |-> emitted],
                          block, 1)
       IN /\ notes' = p.notes
          /\ midi_out' = p.midi_out
          /\ poly_buffers' = p.buffers
          /\ emitted' = p.emitted
    /\ fed' = fed \o Flatten(block)
    /\ UNCHANGED <<sinkVars, hostVars, last, schedVars, set_by, inputVars, envVars>>

(* ------------------------------------------------------------------ *)
(* Envelope (modules.rs)                                               *)
(* ------------------------------------------------------------------ *)

\* the signal value 1.0: signals and amplitudes of the Envelope are fixed-point numbers
\* in units of 1 / One
One == 8

\* constants.rs SAMPLE_TIME: the time of one sample; the settings attack, decay and
\* release count in the same unit
SAMPLE_TIME == 1

\* the product of two fixed-point numbers
Times(a, b) == (a * b) \div One

EnvelopeSettings(attack, decay, sustain, release) ==
    [attack |-> attack, decay |-> decay, sustain |-> sustain, release |-> release]

\* the settings an Envelope is created with: a gate, a shaped envelope, a slow attack
EnvelopeCatalogue ==
    { EnvelopeSettings(0, 0, One, 0),
      EnvelopeSettings(2, 2, One \div 2, 2),
      EnvelopeSettings(2, 0, One, 0) }

\* no Envelope has been created yet
EnvelopeNone ==
    /\ envelope = [current_stage |-> "none", time_elapsed |-> 0, num_notes |-> 0,
                   release_amplitude |-> 0]
    /\ env_settings = EnvelopeSettings(0, 0, 0, 0)
    /\ env_out = Block(0)
    /\ env_in = <<>>
    /\ env_played = <<>>
    /\ env_stages = <<>>

\* the stage is set, and recorded in the history of the sample
Enter(w, stage) ==
    [w EXCEPT !.e.current_stage = stage, !.visited = Append(@, stage)]

\* the NoteOff arm that never releases
note_off_held(w) == Enter([w EXCEPT !.e.num_notes = @ - 1], "Sustain")

\* the NoteOff arm of Envelope::fill_buffers (modules.rs:77-90)
note_off(w) ==
    LET v == [w EXCEPT !.e.num_notes = @ - 1]
    IN IF v.e.num_notes = 0
         THEN IF v.e.current_stage \in {"Release", "Silence"} THEN v
              ELSE [Enter(v, "Release") EXCEPT !.e.time_elapsed = 0]
         ELSE Enter(v, "Sustain")

\* the MIDI events of one sample, in order (modules.rs:68-94)
RECURSIVE env_midis(_, _)
env_midis(w, midis) ==
    IF midis = <<>> THEN w
    ELSE LET midi == Head(midis)
             v == CASE midi.message = "NoteOn" ->
                         [Enter(w, "Attack") EXCEPT !.e.num_notes = @ + 1,
                                                    !.e.time_elapsed = 0,
                                                    !.e.release_amplitude = 0]
                    [] midi.message = "NoteOff" -> note_off(w)
                    [] OTHER -> w
         IN env_midis(v, Tail(midis))

\* the Attack stage of one sample (modules.rs:98-107); done: the sample is written
env_attack(s, w, signal_in) ==
    IF w.e.current_stage # "Attack" THEN w
    ELSE IF w.e.time_elapsed >= s.attack
      THEN [Enter(w, "Decay") EXCEPT !.e.time_elapsed = @ - s.attack]
      ELSE LET amp == (w.e.time_elapsed * One) \div s.attack
           IN [w EXCEPT !.e.release_amplitude = amp, !.out = Times(signal_in, amp),
                        !.done = TRUE]

\* the Decay stage of one sample (modules.rs:108-118)
env_decay(s, w, signal_in) ==
    IF w.done \/ w.e.current_stage # "Decay" THEN w
    ELSE IF w.e.time_elapsed >= s.decay
      THEN Enter(w, "Sustain")
      ELSE LET amp == Times(One - s.sustain,
                            One - (w.e.time_elapsed * One) \div s.decay) + s.sustain
           IN [w EXCEPT !.e.release_amplitude = amp, !.out = Times(signal_in, amp),
                        !.done = TRUE]

\* the Sustain stage of one sample (modules.rs:119-123)
env_sustain(s, w, signal_in) ==
    IF w.done \/ w.e.current_stage # "Sustain" THEN w
    ELSE [w EXCEPT !.e.release_amplitude = s.sustain, !.out = Times(signal_in, s.sustain),
                   !.done = TRUE]

\* the Release stage of one sample (modules.rs:124-133)
env_release(s, w, signal_in) ==
    IF w.done \/ w.e.current_stage # "Release" THEN w
    ELSE IF w.e.time_elapsed >= s.release
      THEN Enter(w, "Silence")
      ELSE [w EXCEPT !.out = Times(Times(signal_in, w.e.release_amplitude),
                                   One - (w.e.time_elapsed * One) \div s.release),
                     !.done = TRUE]

\* the body of the loop of Envelope::fill_buffers for one sample (modules.rs:68-135):
\* the events, the clock, then the stages in turn; a sample no stage wrote is 0
env_sample(s, e, midis, signal_in) ==
    LET w0 == env_midis([e |-> e, visited |-> <<>>, out |-> 0, done |-> FALSE], midis)
        w1 == [w0 EXCEPT !.e.time_elapsed = @ + SAMPLE_TIME]
        w2 == env_attack(s, w1, signal_in)
        w3 == env_decay(s, w2, signal_in)
        w4 == env_sustain(s, w3, signal_in)
    IN env_release(s, w4, signal_in)

\* the loop of Envelope::fill_buffers over the samples from i on; r = [e, out, stages]
RECURSIVE env_fill(_, _, _, _, _)
env_fill(s, r, midis, signal_in, i) ==
    IF i > BUFFER_LEN THEN r
    ELSE LET w == env_sample(s, r.e, midis[i], signal_in[i])
         IN env_fill(s, [e |-> w.e, out |-> Append(r.out, w.out),
                         stages |-> Append(r.stages, w.visited)],
                     midis, signal_in, i + 1)

\* the blocks a caller hands to the in-port "in" (midi): at most one note event per sample
EnvelopeBlocks == [1..BUFFER_LEN -> {<<>>, <<NoteOn(60)>>, <<NoteOff(60)>>}]

\* Envelope::init: the module is created with its settings
EnvelopeNew(settings) ==
    /\ envelope.current_stage = "none"
    /\ envelope' = [envelope EXCEPT !.current_stage = "Silence"]
    /\ env_settings' = settings
    /\ UNCHANGED <<env_out, env_in, env_played, env_stages>>
    /\ UNCHANGED <<sinkVars, hostVars, last, schedVars, set_by, inputVars, polyVars>>

\* Envelope::fill_buffers on a block of events and the constant signal 1.0
EnvelopeFill(midis) ==
    /\ envelope.current_stage # "none"
    /\ Len(env_in) < MaxBlocks * BUFFER_LEN
    /\ Len(Flatten(env_in)) + Len(Flatten(midis)) <= MaxEvents
    /\ LET r == env_fill(env_settings, [e |-> envelope, out |-> <<>>, stages |-> <<>>],
                         midis, Block(One), 1)
       IN /\ envelope' = r.e
          /\ env_out' = r.out
          /\ env_played' = env_played \o r.out
          /\ env_stages' = env_stages \o r.stages
    /\ env_in' = env_in \o midis
    /\ UNCHANGED env_settings
    /\ UNCHANGED <<sinkVars, hostVars, last, schedVars, set_by, inputVars, polyVars>>

(* ------------------------------------------------------------------ *)
(* Calls on the host                                                   *)
(* ------------------------------------------------------------------ *)

SetHost(h) ==
    /\ modules' = h.modules
    /\ module_handles' = h.module_handles
    /\ next_module_idx' = h.next_module_idx
    /\ groups' = h.groups
    /\ group_handles' = h.group_handles
    /\ next_group_idx' = h.next_group_idx
    /\ UNCHANGED output_handle

PortNames == {"in", "out"}

\* the values a caller passes to link_value
ValuesOf(kind) == IF kind = "signal" THEN {1} ELSE {}

\* the single-port handles Host::buf and ModuleVariadicBufferHandle::at give a caller
PortHandles(dir, kind) ==
    {buf(modules, dir, kind, q[1], q[2]).handle :
        q \in {q \in (DOMAIN modules) \X PortNames :
                 buf(modules, dir, kind, q[1], q[2]).res = "Ok"}}
    \cup
    {variadic_at(variadic_buf(modules, dir, kind, q[1], q[2]).handle, q[3]).handle :
        q \in {q \in (DOMAIN modules) \X PortNames \X (0..(MaxArgs - 1)) :
                 /\ variadic_buf(modules, dir, kind, q[1], q[2]).res = "Ok"
                 /\ variadic_at(variadic_buf(modules, dir, kind, q[1], q[2]).handle,
                                q[3]).res = "Ok"}}

\* the grouped-module handles the create_group_* calls returned
GroupedModules(tag) ==
    {groups[q[1]].handles[q[2]] :
        q \in {q \in (DOMAIN groups) \X GroupedNames :
                 q[2] \in DOMAIN groups[q[1]].handles
                 /\ groups[q[1]].handles[q[2]].tag = tag}}

\* the group buffer handles group_joining_buf, group_instance_buf and
\* group_instance_variadic_buf(..).at(..) give a caller
GroupBufferHandles(dir, kind) ==
    {group_joining_buf(modules, dir, kind, q[1], q[2]).handle :
        q \in {q \in GroupedModules("Joining") \X PortNames :
                 group_joining_buf(modules, dir, kind, q[1], q[2]).res = "Ok"}}
    \cup
    {group_instance_buf(modules, dir, kind, q[1], q[2]).handle :
        q \in {q \in GroupedModules("Instance") \X PortNames :
                 group_instance_buf(modules, dir, kind, q[1], q[2]).res = "Ok"}}
    \cup
    {group_instance_variadic_buf_at(modules, dir, kind, q[1], q[2], q[3]).handle :
        q \in {q \in GroupedModules("Instance") \X PortNames \X (0..(MaxArgs - 1)) :
                 group_instance_variadic_buf_at(modules, dir, kind, q[1], q[2], q[3]).res
                   = "Ok"}}

\* the history of the calls that set in-ports: the ports handles_in of one element kind
\* have just been set by the call `by`
ByLink == [by |-> "link"]

ByLinkValue(value) == [by |-> "link_value", value |-> value]

SetBy(hist, kind, handles_in, by) ==
    [p \in DOMAIN hist \cup {<<kind, handles_in[i]>> : i \in 1..Len(handles_in)} |->
       IF \E i \in 1..Len(handles_in) : p = <<kind, handles_in[i]>> THEN by ELSE hist[p]]

CreateVariadicModule(name, type, settings, num_args) ==
    /\ phase = "build"
    /\ next_module_idx < MaxModules
    /\ LET r == create_variadic_module(HostRec, name, type, settings, num_args) IN
       /\ SetHost(r.host)
       /\ last' = [op |-> "create_variadic_module", name |-> name, res |-> r.res,
                   source |-> r.source,
                   again |-> /\ last.op = "create_variadic_module"
                             /\ last.res = "ModuleInit"
                             /\ last.name = name]
    /\ UNCHANGED <<sinkVars, schedVars, set_by, moduleVars>>

\* Host::buf called by a caller, the host left as it is
Buf(dir, kind, handle, name) ==
    /\ phase = "build"
    /\ last' = [op |-> "buf", dir |-> dir, kind |-> kind, module |-> handle, name |-> name,
                res |-> buf(modules, dir, kind, handle, name).res,
                result |-> buf(modules, dir, kind, handle, name)]
    /\ UNCHANGED <<hostVars, sinkVars, schedVars, set_by, moduleVars>>

\* Host::variadic_buf called by a caller, the host left as it is
VariadicBuf(dir, kind, handle, name) ==
    /\ phase = "build"
    /\ last' = [op |-> "variadic_buf", dir |-> dir, kind |-> kind, module |-> handle,
                name |-> name,
                res |-> variadic_buf(modules, dir, kind, handle, name).res,
                result |-> variadic_buf(modules, dir, kind, handle, name)]
    /\ UNCHANGED <<hostVars, sinkVars, schedVars, set_by, moduleVars>>

Link(kind, buf_out, buf_in) ==
    /\ phase = "build"
    /\ modules' = link(modules, kind, buf_out, buf_in)
    /\ set_by' = SetBy(set_by, kind, <<buf_in>>, ByLink)
    /\ last' = [op |-> "link", res |-> "Ok",
                relink |-> get_port(modules, kind, buf_in) = OutBuffer(buf_out)]
    /\ UNCHANGED <<module_handles, next_module_idx, groups, group_handles, next_group_idx,
                   output_handle, sinkVars, schedVars, moduleVars>>

LinkValue(kind, value, buf_in) ==
    /\ phase = "build"
    /\ modules' = link_value(modules, kind, value, buf_in)
    /\ set_by' = SetBy(set_by, kind, <<buf_in>>, ByLinkValue(value))
    /\ last' = [op |-> "link_value", res |-> "Ok",
                unlink |-> get_port(modules, kind, buf_in).tag = "OutBuffer"]
    /\ UNCHANGED <<module_handles, next_module_idx, groups, group_handles, next_group_idx,
                   output_handle, sinkVars, schedVars, moduleVars>>

CreateGroup(name, anonymous_instances, named_instances) ==
    /\ phase = "build"
    /\ next_group_idx < MaxGroups
    /\ LET r == create_group(HostRec, name, anonymous_instances, named_instances) IN
       /\ SetHost(r.host)
       /\ last' = [op |-> "create_group", name |-> name, res |-> r.res]
    /\ UNCHANGED <<sinkVars, schedVars, set_by, moduleVars>>

CreateGroupJoiningModule(group_handle, name, type, settings) ==
    /\ phase = "build"
    /\ next_module_idx < MaxModules
    /\ LET r == create_group_joining_module(HostRec, group_handle, name, type, settings) IN
       /\ SetHost(r.host)
       /\ last' = [op |-> "create_group_joining_module", name |-> name, res |-> r.res]
    /\ UNCHANGED <<sinkVars, schedVars, set_by, moduleVars>>

CreateGroupInstanceVariadicModule(group_handle, name, type, settings, num_args) ==
    /\ phase = "build"
    /\ next_module_idx + groups[group_handle].num_instances <= MaxModules
    /\ LET r == create_group_instance_variadic_module(HostRec, group_handle, name, type,
                                                      settings, num_args) IN
       /\ SetHost(r.host)
       /\ last' = [op |-> "create_group_instance_variadic_module", name |-> name,
                   res |-> r.res]
    /\ UNCHANGED <<sinkVars, schedVars, set_by, moduleVars>>

LinkGroup(kind, buf_out, buf_in) ==
    /\ phase = "build"
    /\ LET r == link_group(modules, kind, buf_out, buf_in) IN
       /\ modules' = r.modules
       /\ set_by' = IF r.res = "Ok" THEN SetBy(set_by, kind, buf_in.handles, ByLink)
                    ELSE set_by
       /\ last' = [op |-> "link_group", res |-> r.res]
    /\ UNCHANGED <<module_handles, next_module_idx, groups, group_handles, next_group_idx,
                   output_handle, sinkVars, schedVars, moduleVars>>

LinkGroupExt(kind, buf_out, buf_in) ==
    /\ phase = "build"
    /\ modules' = link_group_ext(modules, kind, buf_out, buf_in.handles, 1)
    /\ set_by' = SetBy(set_by, kind, buf_in.handles, ByLink)
    /\ last' = [op |-> "link_group_ext", res |-> "Ok"]
    /\ UNCHANGED <<module_handles, next_module_idx, groups, group_handles, next_group_idx,
                   output_handle, sinkVars, schedVars, moduleVars>>

LinkGroupValue(kind, value, buf_in) ==
    /\ phase = "build"
    /\ modules' = link_group_value(modules, kind, value, buf_in.handles, 1)
    /\ set_by' = SetBy(set_by, kind, buf_in.handles, ByLinkValue(value))
    /\ last' = [op |-> "link_group_value", res |-> "Ok"]
    /\ UNCHANGED <<module_handles, next_module_idx, groups, group_handles, next_group_idx,
                   output_handle, sinkVars, schedVars, moduleVars>>

(* ------------------------------------------------------------------ *)
(* One pass of the loop of Host::process                               *)
(* ------------------------------------------------------------------ *)

\* the orders in which a HashMap can give the handles of S
Orders(S) ==
    {o \in [1..Cardinality(S) -> S] : \A i, j \in 1..Cardinality(S) : o[i] = o[j] => i = j}

Process ==
    /\ passes < MaxPasses
    /\ \E order \in Orders({m \in DOMAIN modules : modules[m].num_dependencies = 0}) :
         LET r == process(modules, order, sink_in) IN
         /\ modules' = r.modules
         /\ log' = r.log
         /\ handed' = r.handed
         /\ sink_in' = r.sink_in
         /\ called' = r.called
    /\ phase' = "run"
    /\ passes' = passes + 1
    /\ last' = [op |-> "process", res |-> "Ok"]
    /\ UNCHANGED <<module_handles, next_module_idx, groups, group_handles, next_group_idx,
                   output_handle, sinkVars, set_by, moduleVars>>

(* ------------------------------------------------------------------ *)
(* Specifications                                                      *)
(* ------------------------------------------------------------------ *)

Init ==
    /\ AudioOutputNew
    /\ modules = HostNew.host.modules
    /\ module_handles = HostNew.host.module_handles
    /\ next_module_idx = HostNew.host.next_module_idx
    /\ groups = HostNew.host.groups
    /\ group_handles = HostNew.host.group_handles
    /\ next_group_idx = HostNew.host.next_group_idx
    /\ output_handle = HostNew.handle
    /\ last = [op |-> "new", res |-> HostNew.res]
    /\ phase = "build"
    /\ log = <<>>
    /\ passes = 0
    /\ sink_in = Block(0)
    /\ handed = <<>>
    /\ called = <<>>
    /\ set_by = EmptyMap
    /\ MidiInputInit
    /\ MidiPolyInit
    /\ EnvelopeNone

\* the graph-building calls of a host, over both element kinds and with groups
Next ==
    \/ \E c \in ModuleCatalogue :
         /\ next_module_idx >= c.at
         /\ CreateVariadicModule(c.name, c.type, c.settings, c.num_args)
    \/ \E kind \in ElemKinds :
         \E buf_out \in PortHandles("out", kind), buf_in \in PortHandles("in", kind) :
           Link(kind, buf_out, buf_in)
    \/ \E kind \in ElemKinds :
         \E value \in ValuesOf(kind), buf_in \in PortHandles("in", kind) :
           LinkValue(kind, value, buf_in)
    \/ \E c \in GroupCatalogue :
         /\ next_group_idx >= c.at
         /\ CreateGroup(c.name, c.anonymous_instances, c.named_instances)
    \/ \E c \in JoiningCatalogue :
         /\ next_module_idx >= c.at
         /\ c.group \in DOMAIN groups
         /\ CreateGroupJoiningModule(c.group, c.name, c.type, c.settings)
    \/ \E c \in InstanceCatalogue :
         /\ next_module_idx >= c.at
         /\ c.group \in DOMAIN groups
         /\ CreateGroupInstanceVariadicModule(c.group, c.name, c.type, c.settings,
                                              c.num_args)
    \/ \E kind \in ElemKinds :
         \E buf_out \in GroupBufferHandles("out", kind),
            buf_in \in GroupBufferHandles("in", kind) :
           LinkGroup(kind, buf_out, buf_in)
    \/ \E kind \in ElemKinds :
         \E buf_out \in PortHandles("out", kind),
            buf_in \in GroupBufferHandles("in", kind) :
           LinkGroupExt(kind, buf_out, buf_in)
    \/ \E kind \in ElemKinds :
         \E value \in ValuesOf(kind), buf_in \in GroupBufferHandles("in", kind) :
           LinkGroupValue(kind, value, buf_in)

Spec == Init /\ [][Next]_vars

\* a graph of Op modules is built with create/link/link_value, then Host::process runs
NextSched ==
    \/ \E c \in SchedCatalogue :
         /\ next_module_idx >= c.at
         /\ CreateVariadicModule(c.name, "Op", c.settings, c.num_args)
    \/ \E buf_out \in PortHandles("out", "signal"), buf_in \in PortHandles("in", "signal") :
         Link("signal", buf_out, buf_in)
    \/ \E buf_in \in PortHandles("in", "signal") :
         LinkValue("signal", 2, buf_in)
    \/ Process

SpecSched == Init /\ [][NextSched]_vars

\* groups and their instance modules, of module types whose init can fail
NextSiblings ==
    \/ \E c \in GroupCatalogue :
         /\ next_group_idx >= c.at
         /\ CreateGroup(c.name, c.anonymous_instances, c.named_instances)
    \/ \E c \in SiblingsCatalogue :
         /\ next_module_idx >= c.at
         /\ c.group \in DOMAIN groups
         /\ CreateGroupInstanceVariadicModule(c.group, c.name, c.type, c.settings,
                                              c.num_args)
    \/ Process

SpecSiblings == Init /\ [][NextSiblings]_vars

\* the graph thread hands blocks to the audio sink while the audio thread pulls samples
NextSink ==
    \/ WriterCall
    \/ WriterLock
    \/ WriterNotified
    \/ WriterSpuriousWake
    \/ WriterTryLock
    \/ WriterCopy
    \/ ReaderLock
    \/ ReaderTryLock
    \/ ReaderRead

SpecSink == Init /\ [][NextSink]_vars

\* both threads keep running: a thread that can take its next step inside write() or
\* next() takes it, and the audio thread keeps calling next(); the graph thread need
\* not call write() again, and the condvar need not wake without a notify
SinkFairness ==
    /\ WF_vars(WriterLock)
    /\ WF_vars(WriterNotified)
    /\ WF_vars(WriterTryLock)
    /\ WF_vars(WriterCopy)
    /\ WF_vars(ReaderLock)
    /\ WF_vars(ReaderTryLock)
    /\ WF_vars(ReaderRead)

SpecSinkLive == SpecSink /\ SinkFairness

\* modules are created and their ports looked up by name
NextPorts ==
    \/ \E c \in PortsCatalogue :
         /\ next_module_idx >= c.at
         /\ CreateVariadicModule(c.name, c.type, c.settings, c.num_args)
    \/ \E c \in FailingCatalogue :
         /\ next_module_idx >= c.at
         /\ CreateVariadicModule(c.name, c.type, c.settings, c.num_args)
    \/ \E dir \in {"in", "out"}, kind \in ElemKinds, handle \in DOMAIN modules,
          name \in LookupNames :
         Buf(dir, kind, handle, name)
    \/ \E dir \in {"in", "out"}, kind \in ElemKinds, handle \in DOMAIN modules,
          name \in LookupNames :
         VariadicBuf(dir, kind, handle, name)

SpecPorts == Init /\ [][NextPorts]_vars

\* a MidiInput is filled block after block while the clock runs and messages arrive
NextInput ==
    \/ \E later \in 0..MaxClock : MidiCallback(later)
    \/ \E later \in 0..MaxClock : MidiInputNow(later)
    \/ MidiInputFill

SpecInput == Init /\ [][NextInput]_vars

\* a MidiPoly is filled block after block with the events of a caller
NextPoly == \E block \in PolyBlocks : MidiPolyFill(block)

SpecPoly == Init /\ [][NextPoly]_vars

\* an Envelope is created and filled block after block with the events of a caller
NextEnvelope ==
    \/ \E settings \in EnvelopeCatalogue : EnvelopeNew(settings)
    \/ \E midis \in EnvelopeBlocks : EnvelopeFill(midis)

SpecEnvelope == Init /\ [][NextEnvelope]_vars

(* ------------------------------------------------------------------ *)
(* Properties of the audio sink                                        *)
(* ------------------------------------------------------------------ *)

\* C3: writer and reader never hold the same buffer, and no state lets the try_lock
\* that write() or next() is about to make on buffer A or B fail
C3_NoTryLockFails ==
    /\ ~(wpc = "copy" /\ rpc = "read" /\ write_buffer_name = now_reading)
    /\ ~(wpc = "try_lock" /\ buffer_mutex[write_buffer_name] # "free")
    /\ ~(rpc = "try_lock" /\ buffer_mutex[now_reading] # "free")

\* number of samples of block v the reader has returned
SamplesOf(v) == Cardinality({k \in 1..Len(reads) : reads[k] = v})

\* C4: while the writer keeps up, the reader returns the blocks in write order, no
\* block more than BUFFER_LEN times, and every block before the one being read in full
C4_EachBlockOnceInOrder ==
    kept_up =>
      /\ \A j, k \in 1..Len(reads) : j < k => reads[j] <= reads[k]
      /\ \A v \in 1..MaxBlocks : SamplesOf(v) <= BUFFER_LEN
      /\ \A k \in 1..Len(reads) : \A v \in 1..(reads[k] - 1) : SamplesOf(v) = BUFFER_LEN

\* the writer kept up and the reader has returned blocks 1 and 2 in full
C4_Witness ==
    /\ kept_up
    /\ SamplesOf(1) = BUFFER_LEN
    /\ SamplesOf(2) = BUFFER_LEN

\* C5: the first sample the reader returns after an underrun, once the writer's next
\* write is complete, belongs to that newly written block, not to a block played
\* before the underrun
C5_ResumesWithNewBlock ==
    (resumed.seen /\ resumed.complete) => resumed.got = resumed.newest

(* ------------------------------------------------------------------ *)
(* Properties of the graph store                                       *)
(* ------------------------------------------------------------------ *)

\* number of occurrences of x in the sequence s
CountIn(s, x) == Cardinality({i \in 1..Len(s) : s[i] = x})

\* the handles of all in-ports (out-ports) of one element kind
InPorts(mods, kind) ==
    UNION {{ModuleBufferHandle(m, i - 1) : i \in 1..Len(mods[m].buf_in[kind].buffers)} :
             m \in DOMAIN mods}

OutPorts(mods, kind) ==
    UNION {{ModuleBufferHandle(m, i - 1) : i \in 1..Len(mods[m].buf_out[kind].buffers)} :
             m \in DOMAIN mods}

\* the subscriber list of an out-port
Subscribers(mods, kind, o) ==
    mods[o.module_handle].buf_out[kind].buffers[o.buf_handle + 1].dependents

\* number of in-ports of a module that are linked to an out-port
LinkedPorts(mods, m) ==
    Cardinality({i \in 1..Len(mods[m].buf_in["signal"].buffers) :
                   mods[m].buf_in["signal"].buffers[i].tag = "OutBuffer"})
    + Cardinality({i \in 1..Len(mods[m].buf_in["midi"].buffers) :
                     mods[m].buf_in["midi"].buffers[i].tag = "OutBuffer"})

\* C6: the subscriber index is consistent in both directions: an in-port linked to
\* out-port O is in O's subscriber list exactly once, any other in-port is not in it,
\* and every entry of a subscriber list is an in-port of the host
C6_SubscriberIndexConsistent ==
    \A kind \in ElemKinds : \A o \in OutPorts(modules, kind) :
      /\ \A p \in InPorts(modules, kind) :
           CountIn(Subscribers(modules, kind, o), p) =
             (IF get_port(modules, kind, p) = OutBuffer(o) THEN 1 ELSE 0)
      /\ \A i \in 1..Len(Subscribers(modules, kind, o)) :
           Subscribers(modules, kind, o)[i] \in InPorts(modules, kind)

\* link has just re-linked an in-port to the out-port it was linked to already, in a
\* host where some out-port has two subscribers
C6_Witness ==
    /\ last.op = "link"
    /\ last.relink
    /\ \E o \in OutPorts(modules, "signal") : Len(Subscribers(modules, "signal", o)) = 2

\* C7: num_dependencies of every module is the number of its in-ports, of both kinds and
\* with every variadic slot counted, that are linked to an out-port; it is never negative
C7_NumDependenciesCountsLinks ==
    \A m \in DOMAIN modules :
      /\ modules[m].num_dependencies >= 0
      /\ modules[m].num_dependencies = LinkedPorts(modules, m)

\* link_value has just been called in a host where a module has a variadic port with
\* one slot linked and one constant, and another module has a linked midi port
C7_Witness ==
    /\ last.op = "link_value"
    /\ \E m \in DOMAIN modules :
         /\ Len(modules[m].buf_in["signal"].buffers) = 2
         /\ modules[m].num_dependencies = 1
    /\ \E m \in DOMAIN modules :
         /\ Len(modules[m].buf_in["midi"].buffers) = 1
         /\ modules[m].num_dependencies = 1

\* C8: create_variadic_module with a name the host holds already returns the
\* duplicate-identifier error and changes nothing in the host: no module added, the name
\* map and next_module_idx as before
C8_DuplicateNameFails ==
    [][\A c \in SchedCatalogue :
         (/\ c.name \in DOMAIN module_handles
          /\ CreateVariadicModule(c.name, "Op", c.settings, c.num_args))
         => (last'.res = "DuplicateIdentifier" /\ UNCHANGED hostVars)]_vars

\* a create with the name "audio_out" has just failed in a host that holds linked modules
C8_Witness ==
    /\ last.op = "create_variadic_module"
    /\ last.name = OUTPUT_MODULE_NAME
    /\ last.res = "DuplicateIdentifier"
    /\ next_module_idx >= 3
    /\ \E m \in DOMAIN modules : modules[m].num_dependencies > 0

GroupLinkEffect(kind, handles_in, news) ==
    LET K == Len(handles_in)
        Targets == {handles_in[i] : i \in 1..K}
    IN
    /\ Len(news) = K
    /\ \A i \in 1..K : get_port(modules', kind, handles_in[i]) = news[i]
    /\ \A i \in 1..K :
         news[i].tag = "OutBuffer" =>
           CountIn(Subscribers(modules', kind, news[i].out), handles_in[i]) = 1
    /\ DOMAIN modules' = DOMAIN modules
    /\ \A m \in DOMAIN modules :
         modules'[m].num_dependencies =
           modules[m].num_dependencies
           + Cardinality({i \in 1..K : /\ handles_in[i].module_handle = m
                                       /\ get_port(modules, kind, handles_in[i]).tag = "Constant"
                                       /\ news[i].tag = "OutBuffer"})
           - Cardinality({i \in 1..K : /\ handles_in[i].module_handle = m
                                       /\ get_port(modules, kind, handles_in[i]).tag = "OutBuffer"
                                       /\ news[i].tag = "Constant"})
    /\ \A k \in ElemKinds : \A p \in InPorts(modules, k) :
         (k # kind \/ p \notin Targets) =>
           /\ get_port(modules', k, p) = get_port(modules, k, p)
           /\ \A o \in OutPorts(modules, k) :
                CountIn(Subscribers(modules', k, o), p) = CountIn(Subscribers(modules, k, o), p)
    /\ \A o \in OutPorts(modules, kind) : \A p \in Targets :
         CountIn(Subscribers(modules', kind, o), p) =
           (IF \E i \in 1..K : handles_in[i] = p /\ news[i] = OutBuffer(o) THEN 1 ELSE 0)
    /\ UNCHANGED <<module_handles, next_module_idx, groups, group_handles, next_group_idx,
                   output_handle>>

GroupLookups(gm) ==
    UNION {
      (IF gm.tag = "Joining"
         THEN {group_joining_buf(modules, q[1], q[2], gm, q[3])}
         ELSE {group_instance_buf(modules, q[1], q[2], gm, q[3])}
              \cup {group_instance_variadic_buf_at(modules, q[1], q[2], gm, q[3], idx) :
                       idx \in 0..(MaxArgs - 1)}) :
      q \in {"in", "out"} \X ElemKinds \X PortNames}

\* C11: the instance count K of a group is the anonymous count plus the number of named
\* instances given to create_group, and stays so; every instance module of the group has
\* exactly K distinct sibling modules, every joining module has variadic arity K, and
\* group_joining_buf, group_instance_buf and GroupVariadicBufferHandle::at return K handles
C11_InstanceCountFixed ==
    \A c \in GroupCatalogue :
      c.name \in DOMAIN group_handles =>
        LET g == group_handles[c.name]
            K == c.anonymous_instances + Len(c.named_instances)
        IN /\ groups[g].num_instances = K
           /\ \A n \in DOMAIN groups[g].handles :
                LET gm == groups[g].handles[n] IN
                /\ gm.tag = "Instance" =>
                     /\ Len(gm.handles) = K
                     /\ Cardinality(Range(gm.handles)) = K
                     /\ Range(gm.handles) \subseteq DOMAIN modules
                /\ gm.tag = "Joining" =>
                     /\ Len(gm.handles) = 1
                     /\ modules[gm.handles[1]].num_args = K
                /\ \A r \in GroupLookups(gm) :
                     r.res = "Ok" =>
                       /\ Len(r.handle.handles) = K
                       /\ Cardinality(Range(r.handle.handles)) = K

\* group g of two instances holds an instance module with a variadic port and a joining
\* module, and every kind of group lookup succeeds on them
C11_Witness ==
    /\ "g" \in DOMAIN group_handles
    /\ LET hs == groups[group_handles["g"]].handles IN
       /\ {"poly", "mixer"} \subseteq DOMAIN hs
       /\ group_instance_buf(modules, "in", "midi", hs["poly"], "in").res = "Ok"
       /\ group_instance_variadic_buf_at(modules, "out", "midi", hs["poly"], "out", 0).res = "Ok"
       /\ group_joining_buf(modules, "in", "signal", hs["mixer"], "in").res = "Ok"


\* C17: create_group with a group name in use or with a name repeated in its list of
\* named instances, and create_group_joining_module and
\* create_group_instance_variadic_module with a grouped-module name in use in the group,
\* return the duplicate-identifier error and change nothing in the host: no group,
\* module or name is added and neither next_group_idx nor next_module_idx moves
C17_DuplicateGroupNamesFail ==
    [][/\ last'.op = "create_group" =>
            \A c \in GroupCatalogue :
              (/\ \/ c.name \in DOMAIN group_handles
                  \/ Cardinality(Range(c.named_instances)) < Len(c.named_instances)
               /\ CreateGroup(c.name, c.anonymous_instances, c.named_instances))
              => (last'.res = "DuplicateIdentifier" /\ UNCHANGED hostVars)
       /\ last'.op = "create_group_joining_module" =>
            \A c \in JoiningCatalogue :
              (/\ c.group \in DOMAIN groups
               /\ c.name \in DOMAIN groups[c.group].handles
               /\ CreateGroupJoiningModule(c.group, c.name, c.type, c.settings))
              => (last'.res = "DuplicateIdentifier" /\ UNCHANGED hostVars)
       /\ last'.op = "create_group_instance_variadic_module" =>
            \A c \in InstanceCatalogue :
              (/\ c.group \in DOMAIN groups
               /\ c.name \in DOMAIN groups[c.group].handles
               /\ CreateGroupInstanceVariadicModule(c.group, c.name, c.type, c.settings,
                                                    c.num_args))
              => (last'.res = "DuplicateIdentifier" /\ UNCHANGED hostVars)
      ]_vars

\* a create_group_joining_module with the name of an instance module of the group has
\* just failed, in a host with two groups
C17_Witness ==
    /\ last.op = "create_group_joining_module"
    /\ last.name = "poly"
    /\ last.res = "DuplicateIdentifier"
    /\ next_group_idx = 2

\* the effect of set_buffer_in on the in-port buf_in with the new source new, beside the
\* port's own value: the count of the port's module moves by the transition, and no
\* other count, no other in-port and no subscriber list of a third out-port changes
LinkFrame(kind, buf_in, new) ==
    LET m == buf_in.module_handle
        old == get_port(modules, kind, buf_in)
    IN /\ DOMAIN modules' = DOMAIN modules
       /\ modules'[m].num_dependencies - modules[m].num_dependencies =
            CASE old.tag = "Constant" /\ new.tag = "OutBuffer" -> 1
              [] old.tag = "OutBuffer" /\ new.tag = "Constant" -> -1
              [] OTHER -> 0
       /\ \A n \in DOMAIN modules \ {m} :
            modules'[n].num_dependencies = modules[n].num_dependencies
       /\ \A k \in ElemKinds : \A p \in InPorts(modules, k) :
            (k # kind \/ p # buf_in) => get_port(modules', k, p) = get_port(modules, k, p)
       /\ \A k \in ElemKinds : \A o \in OutPorts(modules, k) :
            (k # kind \/ (old # OutBuffer(o) /\ new # OutBuffer(o))) =>
              Subscribers(modules', k, o) = Subscribers(modules, k, o)

\* C22: link and link_value move num_dependencies of the in-port's module by +1 on a
\* constant -> linked transition, by -1 on linked -> constant and by 0 otherwise, and
\* change no other module's count, no other in-port and no subscriber list but those of
\* the old and the new producer out-port
C22_LinkFrame ==
    [][/\ last'.op = "link" =>
            \A kind \in ElemKinds :
              \A buf_out \in PortHandles("out", kind), buf_in \in PortHandles("in", kind) :
                Link(kind, buf_out, buf_in) => LinkFrame(kind, buf_in, OutBuffer(buf_out))
       /\ last'.op = "link_value" =>
            \A kind \in ElemKinds :
              \A value \in ValuesOf(kind), buf_in \in PortHandles("in", kind) :
                LinkValue(kind, value, buf_in) => LinkFrame(kind, buf_in, with_constant(value))
      ]_vars

\* link_value has just unlinked an in-port of a module that has another linked in-port,
\* while a second module has a linked in-port too
C22_Witness ==
    /\ last.op = "link_value"
    /\ last.unlink
    /\ \E m \in DOMAIN modules : \E n \in DOMAIN modules \ {m} :
         /\ modules[m].num_dependencies >= 1
         /\ modules[n].num_dependencies >= 1
         /\ \E k \in ElemKinds : \E p \in InPorts(modules, k) :
              /\ p.module_handle = m
              /\ get_port(modules, k, p).tag = "Constant"
              /\ <<k, p>> \in DOMAIN set_by
              /\ set_by[<<k, p>>].by = "link_value"

(* ------------------------------------------------------------------ *)
(* Properties of the scheduler                                         *)
(* ------------------------------------------------------------------ *)

\* the modules that produce a linked in-port of module m
Producers(mods, m) ==
    UNION {{mods[m].buf_in[kind].buffers[i].out.module_handle :
              i \in {i \in 1..Len(mods[m].buf_in[kind].buffers) :
                       mods[m].buf_in[kind].buffers[i].tag = "OutBuffer"}} :
             kind \in ElemKinds}

\* the modules from which a chain of at most n links leads into a module of S
RECURSIVE Upstream(_, _, _)
Upstream(mods, S, n) ==
    IF n = 0 THEN {}
    ELSE LET P == UNION {Producers(mods, m) : m \in S} IN
         P \cup Upstream(mods, P, n - 1)

\* no chain of links leads from a module back to itself
Acyclic(mods) ==
    \A m \in DOMAIN mods : m \notin Upstream(mods, {m}, Cardinality(DOMAIN mods))

\* number of fill_buffers calls on module m in the last pass
Fills(m) == CountIn(log, m)

\* C1: after a pass over an acyclic graph every module has been filled exactly once
C1_EveryModuleFilledOnce ==
    (phase = "run" /\ Acyclic(modules)) => \A m \in DOMAIN modules : Fills(m) = 1

\* a pass has run over an acyclic graph of four modules in which one module has two
\* producers and one of these feeds the other
C1_Witness ==
    /\ phase = "run"
    /\ Acyclic(modules)
    /\ Cardinality(DOMAIN modules) = 4
    /\ \E m \in DOMAIN modules : \E p1, p2 \in Producers(modules, m) :
         p1 # p2 /\ p1 \in Producers(modules, p2)

\* C2: in a pass every module is filled after all producers of its linked in-ports have
\* been filled in that pass, so the order of the fills is a topological order
C2_FilledAfterProducers ==
    phase = "run" =>
      \A k \in 1..Len(log) : \A p \in Producers(modules, log[k]) :
        \E j \in 1..(k - 1) : log[j] = p

\* a pass has filled a module with two producers whose first producer lists it before
\* the second producer among its subscribers
C2_Witness ==
    /\ phase = "run"
    /\ \E m \in DOMAIN modules : \E p1, p2 \in Producers(modules, m) :
         /\ p1 # p2
         /\ p1 \in Producers(modules, p2)
         /\ Fills(m) = 1
         /\ Subscribers(modules, "signal", ModuleBufferHandle(p1, 0))[1].module_handle = m

\* the defaults the descriptor of a module declares for its in-ports of one element
\* kind, one per port slot (a variadic port has num_args slots)
DeclaredDefaults(module, kind) ==
    LET elems == ModuleInit(module.type, module.settings, module.num_args)[kind].buf_in IN
    Flatten([i \in 1..Len(elems) |->
               IF elems[i].arity = "Single" THEN <<elems[i].elem>>
               ELSE [j \in 1..module.num_args |-> elems[i].elem]])

\* C12: in every pass, the block fill_buffers is handed for an in-port last set by
\* link_value(v) is BUFFER_LEN copies of v (a port linked since then is not constrained),
\* and for an in-port never set it is BUFFER_LEN copies of the default of the descriptor
C12_ConstantPortsHanded ==
    phase = "run" =>
      \A k \in 1..Len(log) :
        LET defaults == DeclaredDefaults(modules[log[k]], "signal") IN
        /\ Len(handed[k]) = Len(defaults)
        /\ \A i \in 1..Len(handed[k]) :
             LET p == <<"signal", ModuleBufferHandle(log[k], i - 1)>> IN
             IF p \notin DOMAIN set_by
               THEN handed[k][i] = Block(defaults[i])
               ELSE set_by[p].by = "link_value" => handed[k][i] = Block(set_by[p].value)

\* the second pass has filled a module with a port set by link_value and a module with
\* a port never set whose declared default is not zero
C12_Witness ==
    /\ passes = 2
    /\ \E k \in 1..Len(log) : \E i \in 1..Len(handed[k]) :
         LET p == <<"signal", ModuleBufferHandle(log[k], i - 1)>> IN
         /\ p \in DOMAIN set_by
         /\ set_by[p].by = "link_value"
    /\ \E k \in 1..Len(log) : \E i \in 1..Len(handed[k]) :
         /\ <<"signal", ModuleBufferHandle(log[k], i - 1)>> \notin DOMAIN set_by
         /\ DeclaredDefaults(modules[log[k]], "signal")[i] # 0

\* module m is on a cycle of links
OnCycle(mods, m) == m \in Upstream(mods, {m}, Cardinality(DOMAIN mods))

\* module m is on a cycle or a chain of links leads from a module on a cycle to m
BehindCycle(mods, m) ==
    \E u \in {m} \cup Upstream(mods, {m}, Cardinality(DOMAIN mods)) : OnCycle(mods, u)

\* C13: link accepts an edge that closes a cycle (the in-port is linked as asked), and in
\* no pass is a module on a cycle, or a module behind one, filled: its counter of
\* finished dependencies stays below num_dependencies
C13_CyclesNeverFill ==
    /\ [](phase = "run" =>
            \A m \in DOMAIN modules :
              BehindCycle(modules, m) =>
                /\ Fills(m) = 0
                /\ modules[m].num_finished_dependencies < modules[m].num_dependencies)
    /\ [][last'.op = "link" =>
            \A buf_out \in PortHandles("out", "signal"),
               buf_in \in PortHandles("in", "signal") :
              (Link("signal", buf_out, buf_in) /\ Acyclic(modules) /\ ~Acyclic(modules'))
              => /\ last'.res = "Ok"
                 /\ get_port(modules', "signal", buf_in) = OutBuffer(buf_out)
                 /\ OnCycle(modules', buf_in.module_handle)]_vars

\* two passes have run over a graph in which two modules feed each other, a module off
\* the cycle feeds one of them and was filled, and audio_out is fed from the cycle
C13_Witness ==
    /\ passes = 2
    /\ \E m, n \in DOMAIN modules :
         /\ m # n
         /\ m \in Producers(modules, n)
         /\ n \in Producers(modules, m)
         /\ \E s \in Producers(modules, m) : ~BehindCycle(modules, s) /\ Fills(s) = 1
    /\ BehindCycle(modules, output_handle)
    /\ ~OnCycle(modules, output_handle)

\* number of occurrences of message raw in the block
Emitted(block, raw) ==
    Cardinality({q \in (1..BUFFER_LEN) \X (1..MaxEvents) :
                   q[2] <= Len(block[q[1]]) /\ block[q[1]][q[2]] = raw})

\* C14: a fill_buffers call of MidiInput over the staged messages (queue and pending)
\* with block start start_time puts every message whose index is below BUFFER_LEN once
\* in the block, in the event list of that index and nowhere else, and keeps every
\* message whose index is BUFFER_LEN or more staged, in the original order, unemitted
C14_MidiPartition ==
    [][MidiInputFill =>
         LET staged == event_queue \o event_receiver IN
         /\ \A i \in 1..Len(staged) :
              LET idx == event_idx(staged[i], start_time) IN
              IF idx < BUFFER_LEN
                THEN /\ Emitted(input_buffer', staged[i]) = 1
                     /\ \E k \in 1..Len(input_buffer'[idx + 1]) :
                          input_buffer'[idx + 1][k] = staged[i]
                     /\ \A k \in 1..Len(event_queue') : event_queue'[k] # staged[i]
                ELSE Emitted(input_buffer', staged[i]) = 0
         /\ event_queue' =
              SelectSeq(staged, LAMBDA raw : event_idx(raw, start_time) >= BUFFER_LEN)
      ]_vars

\* a call has emitted a message kept from the block before at index 0 and a new message
\* at a later index, and keeps a message for the next block
C14_Witness ==
    /\ start_time_new = -1
    /\ \E k \in 1..Len(input_buffer[1]) : input_buffer[1][k].time_received < block_start
    /\ \E i \in 2..BUFFER_LEN : input_buffer[i] # <<>>
    /\ event_queue # <<>>

\* the keys of the notes that have a voice port, newest first, and the port of each
ActiveVoices ==
    [i \in 1..Min(Len(notes), num_ports) |-> [key |-> notes[i].key, port |-> midi_out[i]]]

\* the keys of the held notes without a port
Evicted == [i \in 1..(Len(notes) - Min(Len(notes), num_ports)) |-> notes[num_ports + i].key]

\* the first three events of the scenario leave 64 and 62 as the active voices and 60
\* held without a port
AfterThreeNotes ==
    fed = SubSeq(Scenario, 1, 3) =>
      /\ [i \in 1..Len(ActiveVoices) |-> ActiveVoices[i].key] = <<64, 62>>
      /\ Evicted = <<60>>
      /\ emitted = <<[port |-> 0, event |-> NoteOn(60)], [port |-> 1, event |-> NoteOn(62)],
                     [port |-> 0, event |-> NoteOn(64)]>>

\* C15 as amended: with two voice ports, after NoteOn(60), NoteOn(62), NoteOn(64) the
\* active voices are 64 (on port 0) and 62 (on port 1) and 60 is held without a port; a
\* following NoteOff(62) re-emits the NoteOn of 60 on port 1, the port 62 had
C15_EvictedNoteTakesFreedPort ==
    /\ AfterThreeNotes
    /\ fed = Scenario =>
         /\ Len(emitted) = 4
         /\ emitted[4] = [port |-> 1, event |-> NoteOn(60)]
         /\ ActiveVoices = <<[key |-> 64, port |-> 0], [key |-> 60, port |-> 1]>>
         /\ Evicted = <<>>

\* C15 as stated: the NoteOff(62) re-emits the NoteOn of 60 on voice port 0
C15_EvictedNoteTakesPortZero ==
    /\ AfterThreeNotes
    /\ fed = Scenario =>
         /\ Len(emitted) = 4
         /\ emitted[4] = [port |-> 0, event |-> NoteOn(60)]

\* the four events of the scenario have been fed, the last two in one block
C15_Witness ==
    /\ fed = Scenario
    /\ \E p \in 0..(num_ports - 1) : \E i \in 1..BUFFER_LEN :
         poly_buffers[p][i] = <<NoteOn(64)>>

(* ------------------------------------------------------------------ *)
(* Properties of port declaration and lookup                           *)
(* ------------------------------------------------------------------ *)

\* the ports a module type declares for one direction and element kind, in order
Declared(type, settings, num_args, dir, kind) ==
    IF dir = "in" THEN ModuleInit(type, settings, num_args)[kind].buf_in
    ELSE ModuleInit(type, settings, num_args)[kind].buf_out

\* the module type declares a port name twice for one direction and element kind
DeclaresTwice(type, settings, num_args) ==
    \E dir \in {"in", "out"}, kind \in ElemKinds :
      LET elems == Declared(type, settings, num_args, dir, kind) IN
      \E i, j \in 1..Len(elems) : i < j /\ elems[i].name = elems[j].name

\* the module type declares a port name twice, whatever the directions and kinds
DeclaresTwiceAnywhere(type, settings, num_args) ==
    LET all == Declared(type, settings, num_args, "in", "signal")
               \o Declared(type, settings, num_args, "in", "midi")
               \o Declared(type, settings, num_args, "out", "signal")
               \o Declared(type, settings, num_args, "out", "midi")
    IN \E i, j \in 1..Len(all) : i < j /\ all[i].name = all[j].name

\* C16 as amended: port names are unique per module, direction and element kind: a
\* create_variadic_module of a type that declares a name twice for one direction and
\* kind fails with a module-init error caused by a duplicate-identifier error and
\* leaves the host unchanged; a type that repeats a name only across directions or
\* kinds is created and registered
C16_DuplicatePortFails ==
    [][last'.op = "create_variadic_module" =>
         \A c \in PortsCatalogue :
           (/\ c.name \notin DOMAIN module_handles
            /\ CreateVariadicModule(c.name, c.type, c.settings, c.num_args))
           => IF DeclaresTwice(c.type, c.settings, c.num_args)
                THEN /\ last'.res = "ModuleInit"
                     /\ last'.source = "DuplicateBufferIdentifier"
                     /\ UNCHANGED hostVars
                ELSE /\ last'.res = "Ok"
                     /\ c.name \in DOMAIN module_handles'
                     /\ module_handles'[c.name] = next_module_idx
                     /\ next_module_idx \in DOMAIN modules'
      ]_vars

\* C16 as stated: a create_variadic_module of a type that declares two ports with the
\* same name fails with a module-init error and registers nothing
C16_AnyRepeatedPortNameFails ==
    [][last'.op = "create_variadic_module" =>
         \A c \in PortsCatalogue :
           (/\ c.name \notin DOMAIN module_handles
            /\ DeclaresTwiceAnywhere(c.type, c.settings, c.num_args)
            /\ CreateVariadicModule(c.name, c.type, c.settings, c.num_args))
           => /\ last'.res = "ModuleInit"
              /\ last'.source = "DuplicateBufferIdentifier"
              /\ UNCHANGED hostVars
      ]_vars

\* the create of a type that declares "out" twice among its midi out-ports has just
\* failed, in a host that holds an Envelope and a module with three ports named "x"
C16_Witness ==
    /\ last.op = "create_variadic_module"
    /\ last.name = "late"
    /\ last.res = "ModuleInit"
    /\ {"env", "mixed"} \subseteq DOMAIN module_handles
    /\ "late" \notin DOMAIN module_handles

\* the port of a module that a name denotes for a direction and element kind, from the
\* declarations of the module type: its arity and its first slot
DeclaredPort(module, dir, kind, name) ==
    LET elems == Declared(module.type, module.settings, module.num_args, dir, kind)
        Is == {i \in 1..Len(elems) : elems[i].name = name}
    IN IF Is = {} THEN [found |-> FALSE]
       ELSE LET i == CHOOSE i \in Is : TRUE IN
            [found |-> TRUE, arity |-> elems[i].arity,
             idx |-> Cardinality({j \in 1..(i - 1) : elems[j].arity = "Single"})
                     + module.num_args
                       * Cardinality({j \in 1..(i - 1) : elems[j].arity = "Variadic"})]

\* C18: buf and variadic_buf leave the host unchanged; each returns the not-found error
\* when the module declares no port of the name for the direction and element kind
\* asked for, the wrong-arity error when the port has the other arity (variadic for buf,
\* single for variadic_buf), and otherwise the handle of exactly that port
C18_PortLookup ==
    [][\A dir \in {"in", "out"}, kind \in ElemKinds, handle \in DOMAIN modules,
          name \in LookupNames :
         LET d == DeclaredPort(modules[handle], dir, kind, name) IN
         /\ (last'.op = "buf" /\ Buf(dir, kind, handle, name)) =>
              /\ UNCHANGED hostVars
              /\ IF ~d.found THEN last'.res = "NonexistentIdentifier"
                 ELSE IF d.arity = "Variadic" THEN last'.res = "UnexpectedBufferArity"
                 ELSE last'.result = [res |-> "Ok",
                                      handle |-> ModuleBufferHandle(handle, d.idx)]
         /\ (last'.op = "variadic_buf" /\ VariadicBuf(dir, kind, handle, name)) =>
              /\ UNCHANGED hostVars
              /\ IF ~d.found THEN last'.res = "NonexistentIdentifier"
                 ELSE IF d.arity = "Single" THEN last'.res = "UnexpectedBufferArity"
                 ELSE last'.result =
                        [res |-> "Ok",
                         handle |-> [module_handle |-> handle,
                                     buf_handle |-> [num_args |-> modules[handle].num_args,
                                                     buffer |-> d.idx]]]
      ]_vars

\* buf has just refused a name that denotes a variadic port, in a host where the same
\* name denotes a single port of the other direction
C18_Witness ==
    /\ last.op = "buf"
    /\ last.res = "UnexpectedBufferArity"
    /\ \E handle \in DOMAIN modules :
         /\ variadic_buf(modules, "in", "signal", handle, "x").res = "Ok"
         /\ buf(modules, "out", "signal", handle, "x").res = "Ok"
         /\ buf(modules, "out", "midi", handle, "x").res = "NonexistentIdentifier"

\* module m has several signal in-ports and all of them are linked to the out-port o
FanIn(mods, m, o) ==
    /\ Len(mods[m].buf_in["signal"].buffers) >= 2
    /\ \A i \in 1..Len(mods[m].buf_in["signal"].buffers) :
         mods[m].buf_in["signal"].buffers[i] = OutBuffer(o)

\* the position of the fill of module m in the log of the last pass
FillOf(m) == CHOOSE k \in 1..Len(log) : log[k] = m

\* C19: in a pass, a module whose several in-ports are all linked to one out-port of one
\* producer (no cycle leading into it) is filled exactly once, after the producer, each
\* of these in-ports is handed the block the producer wrote in this pass, and an Add
\* module writes the sum of that many copies of the block
C19_FanInFilledOnce ==
    phase = "run" =>
      \A m \in DOMAIN modules : \A o \in OutPorts(modules, "signal") :
        (FanIn(modules, m, o) /\ ~BehindCycle(modules, m)) =>
          LET block == modules[o.module_handle].buf_out["signal"].buffers[o.buf_handle + 1].buffer
              K == Len(modules[m].buf_in["signal"].buffers)
          IN /\ Fills(m) = 1
             /\ Fills(o.module_handle) = 1
             /\ FillOf(o.module_handle) < FillOf(m)
             /\ handed[FillOf(m)] = [i \in 1..K |-> block]
             /\ (modules[m].type = "Op" /\ modules[m].settings = "Add") =>
                  modules[m].buf_out["signal"].buffers[1].buffer =
                    [n \in 1..BUFFER_LEN |-> K * block[n]]

\* a pass has filled an Add module whose two in-ports are linked to the out-port of a
\* producer that writes a block of 2s: its own block holds 4s
C19_Witness ==
    /\ phase = "run"
    /\ \E m \in DOMAIN modules : \E o \in OutPorts(modules, "signal") :
         /\ FanIn(modules, m, o)
         /\ Fills(m) = 1
         /\ modules[o.module_handle].buf_out["signal"].buffers[o.buf_handle + 1].buffer
              = Block(2)
         /\ modules[m].buf_out["signal"].buffers[1].buffer = Block(4)

\* C20: when one block of value 1 has been written to a fresh sink, no other block is
\* written and the reader has played until the sink ran out of samples, the reader has
\* returned the value 1 for exactly BUFFER_LEN samples
C20_OneBlockPlayedInFull ==
    (n_written = 1 /\ wpc = "idle" /\ out_of_samples) => SamplesOf(1) = BUFFER_LEN

(* ------------------------------------------------------------------ *)
(* Properties of the Envelope                                          *)
(* ------------------------------------------------------------------ *)

\* the samples (from 1) at which the Envelope was handed an event
EventSamples == {k \in 1..Len(env_in) : env_in[k] # <<>>}

\* the Envelope is a gate that got a NoteOn at its first sample
GateOpened ==
    /\ env_settings = EnvelopeSettings(0, 0, One, 0)
    /\ Len(env_in) >= 1
    /\ env_in[1] = <<NoteOn(60)>>

\* C21: an Envelope with attack = decay = release = 0 and sustain = 1 on the constant
\* signal 1.0 that gets a NoteOn at its first sample passes from Attack over Decay to
\* Sustain within that sample and writes 1.0 at every sample before the sample of the
\* next event; when that event is a NoteOff the Envelope passes from Release to Silence
\* within its sample and writes 0 at every sample after it up to the next event
C21_EnvelopeGate ==
    GateOpened =>
      /\ env_stages[1] = <<"Attack", "Decay", "Sustain">>
      /\ \A k \in 1..Len(env_played) :
           (\A j \in 2..k : env_in[j] = <<>>) => env_played[k] = One
      /\ \A off \in 2..Len(env_in) :
           (env_in[off] = <<NoteOff(60)>> /\ \A j \in 2..(off - 1) : env_in[j] = <<>>) =>
             /\ env_stages[off] = <<"Release", "Silence">>
             /\ \A k \in (off + 1)..Len(env_played) :
                  (\A j \in (off + 1)..k : env_in[j] = <<>>) => env_played[k] = 0

\* a gate was opened at sample 1, held for a sample, closed, and played on
C21_Witness ==
    /\ GateOpened
    /\ Len(env_played) >= 4
    /\ EventSamples = {1, 3}
    /\ env_in[3] = <<NoteOff(60)>>

\* number of in-ports of the module q that are linked to an out-port of the module p
Subscriptions(mods, p, q) ==
    Cardinality({ki \in ElemKinds \X (0..MaxArgs) :
                   /\ ModuleBufferHandle(q, ki[2]) \in InPorts(mods, ki[1])
                   /\ LET port == get_port(mods, ki[1], ModuleBufferHandle(q, ki[2]))
                      IN port.tag = "OutBuffer" /\ port.out.module_handle = p})

\* number of process_module(q) calls that the loop of process_module(p) made in the pass
CallsBy(p, q) == Cardinality({i \in 1..Len(called) : called[i] = [by |-> p, to |-> q]})

\* C23: after a module's fill_buffers returns, process_module is called on a subscriber
\* module once for each of its in-ports that is linked to an out-port of the module (a
\* module subscribed with two in-ports is called twice by the same producer), and a
\* module that is not filled calls no one
C23_CalledOncePerSubscription ==
    phase = "run" =>
      \A p \in DOMAIN modules : \A q \in DOMAIN modules :
        CallsBy(p, q) = Fills(p) * Subscriptions(modules, p, q)

\* C23 as stated: a filled module calls process_module exactly once on each distinct
\* subscriber module
C23_CalledOncePerSubscriber ==
    phase = "run" =>
      \A p \in DOMAIN modules : \A q \in DOMAIN modules :
        CallsBy(p, q) = (IF Fills(p) >= 1 /\ Subscriptions(modules, p, q) >= 1 THEN 1 ELSE 0)

\* a pass in which a filled module had a subscriber with two in-ports and another with one
C23_Witness ==
    /\ phase = "run"
    /\ \E p \in DOMAIN modules : \E q, r \in DOMAIN modules \ {p} :
         /\ Fills(p) = 1
         /\ Subscriptions(modules, p, q) = 2 /\ CallsBy(p, q) = 2
         /\ Subscriptions(modules, p, r) = 1 /\ CallsBy(p, r) = 1

(* ------------------------------------------------------------------ *)
(* Properties of the reader and of the handoff                         *)
(* ------------------------------------------------------------------ *)

\* the call of next() that reads the last sample of the buffer
LastSampleRead == ReaderRead /\ index + 1 = BUFFER_LEN

\* C24: when the reader's index reaches BUFFER_LEN it swaps the buffers, sets can_write
\* and notifies the waiting writer if a block was written since the last swap, and
\* otherwise sets out_of_samples and keeps now_reading; and no call of next() fails to
\* return a sample
C24_ReaderNeverWaits ==
    /\ [][LastSampleRead =>
            IF can_write
              THEN /\ out_of_samples'
                   /\ now_reading' = now_reading
                   /\ can_write'
              ELSE /\ now_reading' = DoubleBufferNext(now_reading)
                   /\ can_write'
                   /\ out_of_samples' = out_of_samples
                   /\ (wpc = "wait" => notified')]_vars
    /\ [](rpc # "panic")

\* C25: while can_write is false the reader is inside a buffer and alive, every read
\* brings it one sample closer to the end of the buffer, where it sets can_write and
\* notifies; so can_write is set again within BUFFER_LEN pulls, and a writer that waits
\* in write() is released
C25_WriterReleased ==
    /\ [](~can_write => (~out_of_samples /\ index < BUFFER_LEN /\ rpc # "panic"
                         /\ state_mutex # "poisoned"))
    /\ [][(~can_write /\ ReaderRead) =>
            \/ index' = index + 1 /\ ~can_write'
            \/ index + 1 = BUFFER_LEN /\ can_write' /\ (wpc = "wait" => notified')]_vars
    /\ [][(wpc = "wait" /\ notified) => (notified' \/ wpc' = "lock")]_vars
    /\ (~can_write ~> can_write)
    /\ (wpc = "wait" ~> wpc = "try_lock")

\* the writer waits in write() and the reader has just handed the permission back
C25_Witness == wpc = "wait" /\ notified /\ can_write

\* C26: out_of_samples implies can_write, and a writer that waits while the sink is out
\* of samples has been notified
C26_UnderrunIsWritable ==
    /\ out_of_samples => can_write
    /\ (out_of_samples /\ wpc = "wait") => notified

\* the sink ran out of samples after it played a written block
C26_Witness ==
    /\ out_of_samples
    /\ can_write
    /\ n_written >= 1
    /\ Len(reads) >= 2 * BUFFER_LEN

\* C28: the read index is in 0..BUFFER_LEN - 1 between the calls of next(); only a read
\* of a buffer sample changes it, by one, and it is 0 again exactly after the read of the
\* last sample of the buffer, which swaps the buffers or enters the underrun
C28_IndexWalks ==
    /\ [](index \in 0..(BUFFER_LEN - 1))
    /\ [][ReaderRead =>
            /\ index' = (index + 1) % BUFFER_LEN
            /\ index' = 0 <=> index + 1 = BUFFER_LEN
            /\ index' = 0 => (now_reading' # now_reading \/ out_of_samples')]_vars
    /\ [][index' # index => ReaderRead]_vars

\* the index is back at 0 for the second time, after a swap and then an underrun
C28_Witness ==
    /\ index = 0
    /\ Len(reads) = 2 * BUFFER_LEN
    /\ now_reading = "BufferA"
    /\ out_of_samples

\* C29: a call of next() while out_of_samples is set returns 0 and leaves the index,
\* now_reading, can_write, out_of_samples and both buffers unchanged; only the flag
\* update of a write() clears out_of_samples
C29_UnderrunIsSilent ==
    /\ [][(out_of_samples /\ ReaderLock) =>
            /\ returned' = 0
            /\ UNCHANGED <<index, now_reading, can_write, out_of_samples, buffer_a,
                           buffer_b>>]_vars
    /\ [][(out_of_samples /\ ~out_of_samples') => (wpc = "lock" /\ wpc' = "try_lock")]_vars

\* next() has returned silence after the last sample of a written block
C29_Witness ==
    /\ out_of_samples
    /\ returned = 0
    /\ reads # <<>>
    /\ reads[Len(reads)] # 0

\* number of process_module(q) calls of the pass
CallsTo(q) == Cardinality({i \in 1..Len(called) : called[i].to = q})

\* C27: a pass ends on every graph: no module is filled more than once and none is
\* called more often than it has dependencies (a source once); after a pass on a graph
\* without cycle every module with dependencies has num_finished_dependencies equal to
\* num_dependencies, in the first pass and, the counters being reset, in the next
C27_PassTerminates ==
    phase = "run" =>
      /\ \A m \in DOMAIN modules :
           /\ Fills(m) <= 1
           /\ CallsTo(m) <= (IF modules[m].num_dependencies = 0 THEN 1
                             ELSE modules[m].num_dependencies)
      /\ Acyclic(modules) =>
           \A m \in DOMAIN modules :
             modules[m].num_dependencies > 0 =>
               modules[m].num_finished_dependencies = modules[m].num_dependencies

\* the second pass has run on a graph without cycle that has a module with two
\* dependencies
C27_Witness ==
    /\ passes = MaxPasses
    /\ Acyclic(modules)
    /\ \E m \in DOMAIN modules :
         /\ modules[m].num_dependencies = 2
         /\ modules[m].num_finished_dependencies = 2
         /\ Fills(m) = 1

(* ------------------------------------------------------------------ *)
(* Properties of the polyphony splitter                                *)
(* ------------------------------------------------------------------ *)

\* the keys of the held-note list
HeldKeys == {notes[i].key : i \in 1..Len(notes)}

\* the position in emitted of the last note event pushed to a port, 0 if there is none
LastNote(port) ==
    LET on == {i \in 1..Len(emitted) : /\ emitted[i].port = port
                                       /\ emitted[i].event.message \in {"NoteOn", "NoteOff"}}
    IN IF on = {} THEN 0 ELSE CHOOSE i \in on : \A j \in on : j <= i

\* a port is free when it never got a note or got a NoteOff last
Free(port) == LastNote(port) = 0 \/ emitted[LastNote(port)].event.message = "NoteOff"

\* the key that sounds on a port that is not free
VoiceOf(port) == emitted[LastNote(port)].event.key

\* the position in fed of the NoteOn that put a held key on the held-note list: the
\* first NoteOn of the key after its last NoteOff
StartedAt(key) ==
    LET offs == {i \in 1..Len(fed) : fed[i] = NoteOff(key)}
        last_off == IF offs = {} THEN 0 ELSE CHOOSE i \in offs : \A j \in offs : j <= i
        ons == {i \in (last_off + 1)..Len(fed) : fed[i] = NoteOn(key)}
    IN CHOOSE i \in ons : \A j \in ons : i <= j

Ports == 0..(num_ports - 1)

\* C30: a call that hands the one event NoteOn(k) emits nothing and leaves notes and
\* midi_out as they are when k is on the held-note list; otherwise it emits the event
\* on exactly one port and puts k at the front of the list; with fewer than num_ports
\* held notes the port is a free one and no free port has been free for longer, with
\* num_ports or more it is the port of the voice whose note started first among the
\* voices that have a port
C30_NoteOnRouting ==
    [][\A k \in {60, 62, 64} :
         fed' = Append(fed, NoteOn(k)) =>
           IF k \in HeldKeys
             THEN UNCHANGED <<emitted, notes, midi_out>>
             ELSE /\ notes' = <<NoteOn(k)>> \o notes
                  /\ \E q \in Ports :
                       /\ emitted' = Append(emitted, [port |-> q, event |-> NoteOn(k)])
                       /\ \A p \in Ports \ {q}, i \in 1..BUFFER_LEN :
                            poly_buffers'[p][i] = <<>>
                       /\ IF Len(notes) < num_ports
                            THEN /\ Free(q)
                                 /\ \A p \in Ports : Free(p) => LastNote(q) <= LastNote(p)
                            ELSE /\ \A p \in Ports : ~Free(p)
                                 /\ \A p \in Ports :
                                      StartedAt(VoiceOf(q)) <= StartedAt(VoiceOf(p))
      ]_vars

\* the scenario was followed by NoteOn(62), which stole the port of the resurrected 60
C30_Witness ==
    /\ fed = Append(Scenario, NoteOn(62))
    /\ Len(emitted) = 5
    /\ emitted[5] = [port |-> 1, event |-> NoteOn(62)]
    /\ ActiveVoices = <<[key |-> 62, port |-> 1], [key |-> 64, port |-> 0]>>

\* a key holds a voice port when the last note event pushed to some port is its NoteOn
Holds(k) == \E q \in Ports : ~Free(q) /\ VoiceOf(q) = k

PortOf(k) == CHOOSE q \in Ports : ~Free(q) /\ VoiceOf(q) = k

\* the position of a held key on the held-note list, from 1
HeldAt(k) == CHOOSE n \in 1..Len(notes) : notes[n].key = k

\* C31: a call that hands the one event NoteOff(k) changes nothing when k is not held;
\* when k holds a voice port it takes k off the list and emits exactly one event, on
\* that port: the NoteOn of the note at position num_ports + 1 of the list when more
\* than num_ports notes were held, the NoteOff itself otherwise; when k is held without
\* a port it takes k off the list, emits nothing and leaves midi_out as it is
C31_NoteOffRouting ==
    [][\A k \in {60, 62, 64} :
         fed' = Append(fed, NoteOff(k)) =>
           IF k \notin HeldKeys
             THEN UNCHANGED <<emitted, notes, midi_out>>
             ELSE /\ notes' = Remove(notes, HeldAt(k) - 1)
                  /\ IF Holds(k)
                       THEN /\ emitted' =
                                 Append(emitted,
                                        [port |-> PortOf(k),
                                         event |-> IF Len(notes) > num_ports
                                                     THEN NoteOn(notes[num_ports + 1].key)
                                                     ELSE NoteOff(k)])
                            /\ \A p \in Ports \ {PortOf(k)}, i \in 1..BUFFER_LEN :
                                 poly_buffers'[p][i] = <<>>
                       ELSE UNCHANGED <<emitted, midi_out>>
      ]_vars

\* the evicted note 60 was released: nothing was emitted for it and the two voices stay
C31_Witness ==
    /\ fed = <<NoteOn(60), NoteOn(62), NoteOn(64), NoteOff(60)>>
    /\ Len(emitted) = 3
    /\ notes = <<NoteOn(64), NoteOn(62)>>
    /\ midi_out = <<0, 1>>

\* the number of events in the out-port slots
Slotted(buffers) ==
    Len(Flatten(Flatten([q \in 1..num_ports |-> buffers[q - 1]])))

\* the events of the handed block that are neither NoteOn nor NoteOff reach sample i of
\* every port, and the slots hold nothing but what the call pushed
Broadcast(block, others) ==
    /\ \A i \in 1..BUFFER_LEN, q \in Ports :
         SelectSeq(poly_buffers'[q][i], LAMBDA e : e \in others) =
           SelectSeq(block[i], LAMBDA e : e \in others)
    /\ Slotted(poly_buffers') = Len(emitted') - Len(emitted)

\* C32: every call of fill_buffers pushes each event of its block that is neither a
\* NoteOn nor a NoteOff to the same sample of all num_ports ports, and after the call
\* the slots hold only the events the call pushed
C32_OthersBroadcast ==
    [][\A block \in PolyBlocks :
         (fed' = fed \o Flatten(block) /\ MidiPolyFill(block)) =>
           Broadcast(block, {Controller, TimingClock})
      ]_vars

\* the position in emitted of the last NoteOn pushed to a port, 0 if there is none
LastNoteOn(port) ==
    LET on == {i \in 1..Len(emitted) : /\ emitted[i].port = port
                                       /\ emitted[i].event.message = "NoteOn"}
    IN IF on = {} THEN 0 ELSE CHOOSE i \in on : \A j \in on : j <= i

\* C33: midi_out lists every port exactly once, no key is twice on the held-note list,
\* and for each of the first min(Len(notes), num_ports) positions the port at that
\* position of midi_out got as its last NoteOn the one of the note at that position
C33_VoiceTable ==
    /\ Len(midi_out) = num_ports
    /\ {midi_out[j] : j \in 1..Len(midi_out)} = Ports
    /\ \A i, j \in 1..Len(notes) : notes[i].key = notes[j].key => i = j
    /\ \A j \in 1..Min(Len(notes), num_ports) :
         /\ LastNoteOn(midi_out[j]) > 0
         /\ emitted[LastNoteOn(midi_out[j])].event = notes[j]

\* three notes are held after the third stole port 0 from the first
C33_Witness ==
    /\ Len(notes) = 3
    /\ midi_out = <<0, 1>>
    /\ emitted[LastNoteOn(0)].event = NoteOn(64)
    /\ emitted[LastNoteOn(1)].event = NoteOn(62)

\* the events pushed to a port, in order
Heard(port) ==
    LET on == SelectSeq(emitted, LAMBDA x : x.port = port)
    IN [i \in 1..Len(on) |-> on[i].event]

\* the number of events with a message among the events pushed to a port
Count(port, message) ==
    Len(SelectSeq(Heard(port), LAMBDA e : e.message = message))

\* the fields of an Envelope that was created silent and has read the events of a port
Listener(port) ==
    env_midis([e |-> [current_stage |-> "Silence", time_elapsed |-> 0, num_notes |-> 0,
                      release_amplitude |-> 0],
               visited |-> <<>>, out |-> 0, done |-> FALSE],
              Heard(port)).e

\* C34: once no key is held, every port has got as many NoteOn as NoteOff events, and
\* an Envelope that reads the port counts no note and is in Release or Silence
C34_PortsBalanced ==
    notes = <<>> =>
      \A q \in Ports :
        /\ Count(q, "NoteOn") = Count(q, "NoteOff")
        /\ Listener(q).num_notes = 0
        /\ Listener(q).current_stage \in {"Release", "Silence"}

\* the messages the callback has sent, in the order they were sent
Sent == [i \in 1..received |-> i]

\* the numbers of the messages of a sequence of raw events
Numbers(raws) == [i \in 1..Len(raws) |-> raws[i].message]

\* C35: the messages pushed by all calls so far, followed by the staged messages of the
\* queue and the messages still in the channel, are the messages sent, each once and
\* in the order sent; and a call pushes every message of the queue that was received
\* before the start of its block, so a message a call left staged is pushed by a later
\* call
C35_EachEventOnceInOrder ==
    /\ [](Numbers(input_played \o event_queue \o event_receiver) = Sent)
    /\ [][MidiInputFill =>
            \A i \in 1..Len(event_queue) :
              event_queue[i].time_received <= start_time =>
                /\ Emitted(input_buffer', event_queue[i]) = 1
                /\ \A k \in 1..Len(event_queue') : event_queue'[k] # event_queue[i]
        ]_vars

\* two messages have been pushed in two different calls, the second after it was staged
C35_Witness ==
    /\ Len(input_played) = 2
    /\ Len(Flatten(input_buffer)) = 1
    /\ input_buffer[1] = <<input_played[2]>>
    /\ input_played[2].time_received < block_start
    /\ input_played[2].time_received >= BUFFER_LEN * TicksPerSample

(* ------------------------------------------------------------------ *)
(* Properties of failed creates                                        *)
(* ------------------------------------------------------------------ *)

\* the error Module::init or the port tables give for a module type, "none" without one
InitError(type, settings, num_args) ==
    IF init_fails(type, modules) THEN "Custom"
    ELSE IF DeclaresTwice(type, settings, num_args) THEN "DuplicateBufferIdentifier"
    ELSE "none"

\* C36: a create_variadic_module with a free name of a module type whose init fails
\* returns a module-init error with the name of the call and the error of the init, and
\* leaves the module map, the name map and next_module_idx as they are; a create with
\* the same name of a type whose init succeeds, made right after, registers the module
C36_FailedCreateRegistersNothing ==
    [][last'.op = "create_variadic_module" =>
         \A c \in PortsCatalogue \cup FailingCatalogue :
           (/\ c.name \notin DOMAIN module_handles
            /\ CreateVariadicModule(c.name, c.type, c.settings, c.num_args))
           => IF InitError(c.type, c.settings, c.num_args) # "none"
                THEN /\ last'.res = "ModuleInit"
                     /\ last'.name = c.name
                     /\ last'.source = InitError(c.type, c.settings, c.num_args)
                     /\ UNCHANGED <<modules, module_handles, next_module_idx>>
                ELSE /\ last'.res = "Ok"
                     /\ module_handles' = Put(module_handles, c.name, next_module_idx)
                     /\ next_module_idx' = next_module_idx + 1
                     /\ DOMAIN modules' = DOMAIN modules \cup {next_module_idx}
      ]_vars

\* the create of "env" with a type whose init fails was followed by a create of "env"
\* with the Envelope type, which took the index the failed call would have taken
C36_Witness ==
    /\ last.op = "create_variadic_module"
    /\ last.name = "env"
    /\ last.again
    /\ last.res = "Ok"
    /\ module_handles["env"] = 1

\* C37: a create_group_instance_variadic_module that fails at the init of one of the
\* sibling modules leaves the host as it was: the module map, next_module_idx and the
\* grouped-module names of the group are unchanged
C37_FailedInstanceCreateLeavesHost ==
    [][\A c \in SiblingsCatalogue :
         (/\ c.group \in DOMAIN groups
          /\ CreateGroupInstanceVariadicModule(c.group, c.name, c.type, c.settings,
                                               c.num_args)
          /\ last'.res = "GroupedModuleInit")
         => /\ modules' = modules
            /\ next_module_idx' = next_module_idx
            /\ groups' = groups
      ]_vars

(* ------------------------------------------------------------------ *)
(* Properties of the port tables                                       *)
(* ------------------------------------------------------------------ *)

\* C39: a wrong-arity error of buf names Single as the expected arity and one of
\* variadic_buf names Variadic, and both name the arity the port was declared with as
\* the arity found
C39_ArityErrorNamesArities ==
    [][\A dir \in {"in", "out"}, kind \in ElemKinds, handle \in DOMAIN modules,
          name \in LookupNames :
         LET d == DeclaredPort(modules[handle], dir, kind, name) IN
         /\ (/\ last'.op = "buf"
             /\ Buf(dir, kind, handle, name)
             /\ last'.res = "UnexpectedBufferArity") =>
              /\ last'.result.expected = "Single"
              /\ last'.result.found = d.arity
         /\ (/\ last'.op = "variadic_buf"
             /\ VariadicBuf(dir, kind, handle, name)
             /\ last'.res = "UnexpectedBufferArity") =>
              /\ last'.result.expected = "Variadic"
              /\ last'.result.found = d.arity
      ]_vars

\* the slots of a port that starts at slot base
SlotsOf(module, port, base) ==
    IF port.arity = "Single" THEN {base}
    ELSE base..(base + module.num_args - 1)

\* the layout of the ports a module declares for one direction and element kind: the
\* slot the host resolves for the name of each port is the slot the module got from the
\* descriptor, the slots of the ports are apart and fill the port vector, and at(i) of a
\* variadic port is slot base + i below num_args and an out-of-bounds error from there
Layout(handle, dir, kind) ==
    LET module == modules[handle]
        elems == Declared(module.type, module.settings, module.num_args, dir, kind)
        ports == get_buffers(module, dir, kind)
        base(i) == ports.handles[elems[i].name].idx
    IN /\ \A i \in 1..Len(elems) :
            /\ elems[i].name \in DOMAIN ports.handles
            /\ base(i) = elems[i].out
            /\ IF elems[i].arity = "Single"
                 THEN get_handle(ports, elems[i].name) =
                        [res |-> "Ok", handle |-> elems[i].out]
                 ELSE LET r == variadic_buf(modules, dir, kind, handle, elems[i].name) IN
                      /\ r.res = "Ok"
                      /\ r.handle.buf_handle =
                           [num_args |-> module.num_args, buffer |-> elems[i].out]
                      /\ \A k \in 0..(MaxArgs + 1) :
                           variadic_at(r.handle, k) =
                             IF k < module.num_args
                               THEN [res |-> "Ok",
                                     handle |-> ModuleBufferHandle(handle,
                                                                   elems[i].out + k)]
                               ELSE [res |-> "VariadicBufferOutOfBounds"]
       /\ \A i, j \in 1..Len(elems) :
            i # j => SlotsOf(module, elems[i], base(i))
                       \cap SlotsOf(module, elems[j], base(j)) = {}
       /\ UNION {SlotsOf(module, elems[i], base(i)) : i \in 1..Len(elems)}
            = 0..(Len(ports.buffers) - 1)

\* C38: in every module of the host, for each direction and element kind, a single port
\* has one slot and a variadic port num_args slots in a row, no slot belongs to two
\* ports, the host resolves each port name to the slot the module holds for it, and at
\* gives slot base + i for i < num_args and the out-of-bounds error otherwise
C38_PortLayout ==
    \A handle \in DOMAIN modules, dir \in {"in", "out"}, kind \in ElemKinds :
      Layout(handle, dir, kind)

\* the host holds the module with a variadic signal in-port of two slots followed by a
\* single signal in-port, which is at slot 2
C38_Witness ==
    /\ "mixed" \in DOMAIN module_handles
    /\ buf(modules, "in", "signal", module_handles["mixed"], "in") =
         [res |-> "Ok", handle |-> ModuleBufferHandle(module_handles["mixed"], 2)]
    /\ Len(get_buffers(modules[module_handles["mixed"]], "in", "signal").buffers) = 3

====
